---- MODULE Spec2Model ----
(***************************************************************************)
(* Wickless strategy: setup lifecycle engine.                              *)
(*                                                                         *)
(* Prices are integers in units of 0.0001 (1.0999 is 10999): the code only *)
(* compares the prices modelled here, and comparison of the doubles parsed *)
(* from these decimals agrees with comparison of the integers.             *)
(*                                                                         *)
(* The module holds several specifications over one set of variables:      *)
(*   SpecMonitor  - monitorSetups / checkEntryTrigger fed candle by candle *)
(*   SpecOutcome  - checkOutcome applied to bounded inputs                 *)
(*   SpecManager  - the in-memory SignalManager                            *)
(*   SpecCron     - GET /api/cron invocations and POST /api/signals over   *)
(*                  the persisted active_setups and signals tables         *)
(*   and one specification per pure function of the detection layer, each  *)
(*   drawing the arguments from bounded sets and applying the function     *)
(* Each specification keeps the variables of the others at their idle      *)
(* values.                                                                 *)
(***************************************************************************)
EXTENDS Integers, Sequences, FiniteSets, TLC

VARIABLES
    \* --- monitorSetups harness (retracement.ts) ---
    setups,            \* the ActiveSetup[] the caller holds and passes in
    given,             \* the setups argument of the last monitorSetups call
    newCandle,         \* the newCandle argument of the last call
    monitorResult,     \* what the last call returned
    entryTrigger,      \* checkEntryTrigger of each given setup on newCandle
    fed,               \* all candles fed so far, oldest first
    \* --- checkOutcome harness (structure.ts) ---
    ocSetup,           \* the TradeSetup argument
    ocHigh,            \* currentHigh
    ocLow,             \* currentLow
    ocResult,          \* the value returned ("NONE" before the call)
    \* --- pure functions applied to bounded inputs ---
    args,              \* the arguments of the call, as a record
    value,             \* the value returned (meaningful once returned)
    returned,          \* whether the call has returned
    \* --- SignalManager (manager.ts) ---
    activeSetups,      \* Map<string, ActiveSetup>
    triggeredSignals,  \* Map<string, Signal>
    expiredSetups,     \* ActiveSetup[]
    completedSignals,  \* Signal[]
    idCounter,         \* number of ids generateId has handed out
    added,             \* every setup passed to addSetup, by id
    triggeredLog,      \* ids of the setups monitorSetups returned as triggered
    \* --- persistence + routes (supabase.ts, cron/route.ts, signals/route.ts) ---
    active_setups,     \* rows of table active_setups, in insertion order
    signals,           \* rows of table signals, in insertion order
    market,            \* complete candles published so far, oldest first
    cron,              \* per GET /api/cron invocation: program counter and locals
    runs,              \* number of invocations started so far
    applied,           \* history: STEP 2 writes, as [id, candlesElapsed, run]
    posts,             \* number of POST /api/signals requests served so far
    dbIds              \* number of row ids handed out so far

monitorVars == <<setups, given, newCandle, monitorResult, entryTrigger, fed>>
outcomeVars == <<ocSetup, ocHigh, ocLow, ocResult>>
callVars == <<args, value, returned>>
managerVars == <<activeSetups, triggeredSignals, expiredSetups, completedSignals,
                 idCounter, added, triggeredLog>>
cronVars == <<active_setups, signals, market, cron, runs, applied, posts, dbIds>>
vars == <<monitorVars, outcomeVars, callVars, managerVars, cronVars>>

-----------------------------------------------------------------------------
(* Configuration                                                           *)

MAX_CANDLES_FOR_ENTRY == 10

\* Bounds of the model.
MaxFeed == 10

-----------------------------------------------------------------------------
(* Data                                                                    *)

Candle(time, open, high, low, close, complete) ==
    [time |-> time, open |-> open, high |-> high, low |-> low,
     close |-> close, complete |-> complete]

NoCandle == Candle(0, 0, 0, 0, 0, FALSE)

ActiveSetup(id, pair, timeframe, direction, sc, entryZone, stopLoss, takeProfit, candlesElapsed, status) ==
    [id |-> id, pair |-> pair, timeframe |-> timeframe, direction |-> direction,
     signalCandleTime |-> sc.time, signalCandleOpen |-> sc.open,
     signalCandleHigh |-> sc.high, signalCandleLow |-> sc.low,
     signalCandleClose |-> sc.close,
     entryZone |-> entryZone, stopLoss |-> stopLoss, takeProfit |-> takeProfit,
     candlesElapsed |-> candlesElapsed, status |-> status]

SwingPoint(index, time, price, type) ==
    [index |-> index, time |-> time, price |-> price, type |-> type]

TradeSetup(direction, entryZone, stopLoss, takeProfit, riskPips, structurePoint) ==
    [direction |-> direction, entryZone |-> entryZone, stopLoss |-> stopLoss,
     takeProfit |-> takeProfit, riskPips |-> riskPips,
     structurePoint |-> structurePoint]

Signal(id, setupId, pair, timeframe, direction, entryPrice, stopLoss, takeProfit, entryTime, outcome, outcomeTime) ==
    [id |-> id, setupId |-> setupId, pair |-> pair, timeframe |-> timeframe,
     direction |-> direction, entryPrice |-> entryPrice, stopLoss |-> stopLoss,
     takeProfit |-> takeProfit, entryTime |-> entryTime, outcome |-> outcome,
     outcomeTime |-> outcomeTime]

\* a JavaScript Map keyed by id, as its values in insertion order
MapSet(m, v) ==
    IF \E i \in 1..Len(m) : m[i].id = v.id
    THEN [i \in 1..Len(m) |-> IF m[i].id = v.id THEN v ELSE m[i]]
    ELSE Append(m, v)

MapDelete(m, id) == SelectSeq(m, LAMBDA x : x.id # id)

MapSeq(q, F(_)) == [i \in 1..Len(q) |-> F(q[i])]

Range(q) == {q[i] : i \in 1..Len(q)}

-----------------------------------------------------------------------------
(* retracement.ts                                                          *)

isSetupExpired_late(candlesElapsed) == candlesElapsed > MAX_CANDLES_FOR_ENTRY

isSetupExpired(candlesElapsed) == candlesElapsed >= MAX_CANDLES_FOR_ENTRY

isTriggered_strict(setup, candle) ==
    IF setup.direction = "BUY"
    THEN candle.low < setup.entryZone
    ELSE candle.high > setup.entryZone

\* the entry-trigger test inlined in monitorSetups
isTriggered(setup, candle) ==
    IF setup.direction = "BUY"
    THEN candle.low <= setup.entryZone
    ELSE candle.high >= setup.entryZone

monitorOne_stale(setup, candle) ==
    LET newCandlesElapsed == setup.candlesElapsed + 1
    IN  IF setup.status # "WAITING" THEN [kind |-> "skipped", setup |-> setup]
        ELSE IF isTriggered(setup, candle)
        THEN [kind |-> "triggered",
              setup |-> [setup EXCEPT !.candlesElapsed = newCandlesElapsed,
                                      !.status = "TRIGGERED"]]
        ELSE IF isSetupExpired(newCandlesElapsed)
        THEN [kind |-> "expired",
              setup |-> [setup EXCEPT !.candlesElapsed = newCandlesElapsed,
                                      !.status = "EXPIRED"]]
        ELSE [kind |-> "stillActive", setup |-> setup]

monitorOne_noSkip(setup, candle) ==
    LET newCandlesElapsed == setup.candlesElapsed + 1
    IN  IF isTriggered(setup, candle)
        THEN [kind |-> "triggered",
              setup |-> [setup EXCEPT !.candlesElapsed = newCandlesElapsed,
                                      !.status = "TRIGGERED"]]
        ELSE IF isSetupExpired(newCandlesElapsed)
        THEN [kind |-> "expired",
              setup |-> [setup EXCEPT !.candlesElapsed = newCandlesElapsed,
                                      !.status = "EXPIRED"]]
        ELSE [kind |-> "stillActive",
              setup |-> [setup EXCEPT !.candlesElapsed = newCandlesElapsed]]

\* one iteration of the loop of monitorSetups: where the setup goes, and the copy
monitorOne(setup, candle) ==
    LET newCandlesElapsed == setup.candlesElapsed + 1
    IN  IF setup.status # "WAITING" THEN [kind |-> "skipped", setup |-> setup]
        ELSE IF isTriggered(setup, candle)
        THEN [kind |-> "triggered",
              setup |-> [setup EXCEPT !.candlesElapsed = newCandlesElapsed,
                                      !.status = "TRIGGERED"]]
        ELSE IF isSetupExpired(newCandlesElapsed)
        THEN [kind |-> "expired",
              setup |-> [setup EXCEPT !.candlesElapsed = newCandlesElapsed,
                                      !.status = "EXPIRED"]]
        ELSE [kind |-> "stillActive",
              setup |-> [setup EXCEPT !.candlesElapsed = newCandlesElapsed]]

monitorSetups(ss, candle) ==
    LET Of(kind) ==
            LET Is(s) == monitorOne(s, candle).kind = kind
                Copy(s) == monitorOne(s, candle).setup
            IN  MapSeq(SelectSeq(ss, Is), Copy)
    IN  [triggered |-> Of("triggered"),
         expired |-> Of("expired"),
         stillActive |-> Of("stillActive")]

-----------------------------------------------------------------------------
(* structure.ts                                                            *)

checkEntryTrigger(setup, currentHigh, currentLow) ==
    IF setup.direction = "BUY"
    THEN currentLow <= setup.entryZone
    ELSE currentHigh >= setup.entryZone

checkOutcome_stopFirst(setup, currentHigh, currentLow) ==
    IF setup.direction = "BUY"
    THEN IF currentLow <= setup.stopLoss THEN "LOSS"
         ELSE IF currentHigh >= setup.takeProfit THEN "WIN"
         ELSE "OPEN"
    ELSE IF currentHigh >= setup.stopLoss THEN "LOSS"
         ELSE IF currentLow <= setup.takeProfit THEN "WIN"
         ELSE "OPEN"

checkOutcome(setup, currentHigh, currentLow) ==
    IF setup.direction = "BUY"
    THEN IF currentHigh >= setup.takeProfit THEN "WIN"
         ELSE IF currentLow <= setup.stopLoss THEN "LOSS"
         ELSE "OPEN"
    ELSE IF currentLow <= setup.takeProfit THEN "WIN"
         ELSE IF currentHigh >= setup.stopLoss THEN "LOSS"
         ELSE "OPEN"

-----------------------------------------------------------------------------
(* Idle values: what each group of variables holds under the               *)
(* specifications of the other groups.                                     *)

NoSetup == ActiveSetup("none", "none", "none", "BUY", NoCandle, 0, 0, 0, 0, "WAITING")

NoResult == [triggered |-> <<>>, expired |-> <<>>, stillActive |-> <<>>]

IdleMonitor ==
    /\ setups = <<>>
    /\ given = <<>>
    /\ newCandle = NoCandle
    /\ monitorResult = NoResult
    /\ entryTrigger = <<>>
    /\ fed = <<>>

NoTradeSetup == TradeSetup("BUY", 0, 0, 0, 0, SwingPoint(0, 0, 0, "LOW"))

IdleOutcome ==
    /\ ocSetup = NoTradeSetup
    /\ ocHigh = 0
    /\ ocLow = 0
    /\ ocResult = "NONE"

IdleCall ==
    /\ args = <<>>
    /\ value = <<>>
    /\ returned = FALSE

IdleManager ==
    /\ activeSetups = <<>>
    /\ triggeredSignals = <<>>
    /\ expiredSetups = <<>>
    /\ completedSignals = <<>>
    /\ idCounter = 0
    /\ added = <<>>
    /\ triggeredLog = {}

IdleCron ==
    /\ active_setups = <<>>
    /\ signals = <<>>
    /\ market = <<>>
    /\ cron = <<>>
    /\ runs = 0
    /\ applied = {}
    /\ posts = 0
    /\ dbIds = 0

-----------------------------------------------------------------------------
(* SpecMonitor: a caller holds a list of setups and feeds complete candles *)
(* one at a time through monitorSetups, keeping the copies it returns.     *)

\* signal candles and the setups computed from them
SignalCandleA == Candle(0, 11000, 11010, 10999, 11008, TRUE)
SignalCandleB == Candle(0, 11002, 11012, 11002, 11010, TRUE)
SignalCandleC == Candle(0, 11008, 11008, 10995, 10997, TRUE)
SignalCandleD == Candle(0, 11009, 11009, 10996, 10998, TRUE)

BuyA(id, n, st) == ActiveSetup(id, "GBP_USD", "M15", "BUY", SignalCandleA, 10999, 10948, 11050, n, st)
BuyB(id, n, st) == ActiveSetup(id, "GBP_USD", "M15", "BUY", SignalCandleB, 11002, 10950, 11054, n, st)
SellC(id, n, st) == ActiveSetup(id, "GBP_USD", "M15", "SELL", SignalCandleC, 11008, 11060, 10956, n, st)
SellD(id, n, st) == ActiveSetup(id, "GBP_USD", "M15", "SELL", SignalCandleD, 11009, 11061, 10957, n, st)

\* the lists a caller may hold: the first setup is fresh (WAITING, 0 candles)
MonitorLists ==
    { <<BuyA("s1", 0, "WAITING"), SellD("s2", 8, "WAITING")>>,
      <<BuyB("s1", 0, "WAITING"), BuyA("s2", 3, "TRIGGERED")>>,
      <<SellC("s1", 0, "WAITING"), BuyA("s2", 10, "EXPIRED")>> }

\* the complete candles that may close next (time is set when they are fed)
CandleShapes ==
    { Candle(0, 11006, 11010, 11005, 11009, TRUE),
      Candle(0, 11007, 11008, 11002, 11003, TRUE),
      Candle(0, 11003, 11003, 10998, 10999, TRUE) }

InitMonitor ==
    /\ setups \in MonitorLists
    /\ given = <<>>
    /\ newCandle = NoCandle
    /\ monitorResult = NoResult
    /\ entryTrigger = <<>>
    /\ fed = <<>>
    /\ IdleOutcome /\ IdleCall /\ IdleManager /\ IdleCron

\* the caller keeps, for each setup it holds, the copy returned for it (if any)
Returned(r) == r.triggered \o r.expired \o r.stillActive

KeepCopies(ss, r) ==
    LET Kept(s) ==
            LET Same(x) == x.id = s.id
                copies == SelectSeq(Returned(r), Same)
            IN  IF Len(copies) > 0 THEN copies[1] ELSE s
    IN  MapSeq(ss, Kept)

Feed(shape) ==
    /\ Len(fed) < MaxFeed
    /\ LET candle == [shape EXCEPT !.time = Len(fed) + 1]
           r == monitorSetups(setups, candle)
           Trig(s) == checkEntryTrigger(s, candle.high, candle.low)
       IN  /\ given' = setups
           /\ newCandle' = candle
           /\ monitorResult' = r
           /\ entryTrigger' = MapSeq(setups, Trig)
           /\ fed' = Append(fed, candle)
           /\ setups' = KeepCopies(setups, r)
    /\ UNCHANGED <<outcomeVars, callVars, managerVars, cronVars>>

NextMonitor == \E shape \in CandleShapes : Feed(shape)

SpecMonitor == InitMonitor /\ [][NextMonitor]_vars

-----------------------------------------------------------------------------
(* Claims settled under SpecMonitor                                        *)

\* the retracement condition as the specification words it
Retraced(s, c) ==
    \/ s.direction = "BUY" /\ c.low <= s.entryZone
    \/ s.direction = "SELL" /\ c.high >= s.entryZone

NoneRetraced(s, k) == \A i \in 1..k : ~Retraced(s, fed[i])

\* the copy monitorSetups returned for the setup with this id, as a set
CopiesOf(id) == {x \in Range(Returned(monitorResult)) : x.id = id}

\* C1: a fresh WAITING setup (setups[1], fed from candlesElapsed = 0) that no
\* candle retraces into is still WAITING after each of candles 1..9 and
\* EXPIRED from the 10th on; if the 10th candle is the first to retrace into
\* the entry zone the setup is TRIGGERED, not EXPIRED.
C1_TenCandleRule ==
    LET s == setups[1]
        n == Len(fed)
    IN  /\ (n <= 9 /\ NoneRetraced(s, n)) =>
               (s.status = "WAITING" /\ s.candlesElapsed = n)
        /\ (n >= 10 /\ NoneRetraced(s, 10)) =>
               (s.status = "EXPIRED" /\ s.candlesElapsed = 10)
        /\ (n >= 10 /\ NoneRetraced(s, 9) /\ Retraced(s, fed[10])) =>
               (s.status = "TRIGGERED" /\ s.candlesElapsed = 10)

C1_Witness ==
    /\ Len(fed) = 10
    /\ NoneRetraced(setups[1], 9)
    /\ Retraced(setups[1], fed[10])
    /\ setups[1].status = "TRIGGERED"
    /\ given[1].status = "WAITING"
    /\ given[1].candlesElapsed = 9

\* C2: for every WAITING setup passed in, monitorSetups returns it as
\* triggered exactly when BUY and low <= entryZone, or SELL and
\* high >= entryZone, and checkEntryTrigger answers the same for every setup;
\* a BUY setup with entryZone 1.0999 fed lows 1.1005, 1.1002, 1.0998 stays
\* WAITING for two candles and is TRIGGERED on the third, candlesElapsed = 3.
C2_TriggerCondition ==
    /\ \A i \in 1..Len(given) :
           /\ entryTrigger[i] <=> Retraced(given[i], newCandle)
           /\ given[i].status = "WAITING" =>
                  /\ (\E x \in Range(monitorResult.triggered) : x.id = given[i].id)
                         <=> Retraced(given[i], newCandle)
                  /\ setups[i].status = "TRIGGERED" <=> Retraced(given[i], newCandle)
    /\ LET s == setups[1]
           Low(c) == c.low
           lows == MapSeq(fed, Low)
       IN  (s.direction = "BUY" /\ s.entryZone = 10999) =>
               /\ lows = <<11005>> => (s.status = "WAITING" /\ s.candlesElapsed = 1)
               /\ lows = <<11005, 11002>> =>
                      (s.status = "WAITING" /\ s.candlesElapsed = 2)
               /\ lows = <<11005, 11002, 10998>> =>
                      (s.status = "TRIGGERED" /\ s.candlesElapsed = 3)

C2_Witness ==
    LET Low(c) == c.low
    IN  /\ MapSeq(fed, Low) = <<11005, 11002, 10998>>
        /\ setups[1].direction = "BUY"
        /\ setups[1].entryZone = 10999
        /\ setups[1].status = "TRIGGERED"
        /\ setups[1].candlesElapsed = 3
        /\ entryTrigger[1]

\* C3: for every WAITING setup passed to monitorSetups exactly one copy is
\* returned; its candlesElapsed is the input's plus 1, its status is that of
\* the list it is returned in (one change at most, from WAITING), and every
\* other field equals the input's.
C3_CopyFrame ==
    \A i \in 1..Len(given) :
        LET g == given[i]
        IN  g.status = "WAITING" =>
                /\ Cardinality(CopiesOf(g.id)) = 1
                /\ Len(SelectSeq(Returned(monitorResult), LAMBDA x : x.id = g.id)) = 1
                /\ \A x \in CopiesOf(g.id) :
                       /\ x.candlesElapsed = g.candlesElapsed + 1
                       /\ x.status \in {"WAITING", "TRIGGERED", "EXPIRED"}
                       /\ x \in Range(monitorResult.triggered) <=> x.status = "TRIGGERED"
                       /\ x \in Range(monitorResult.expired) <=> x.status = "EXPIRED"
                       /\ x \in Range(monitorResult.stillActive) <=> x.status = "WAITING"
                       /\ [x EXCEPT !.candlesElapsed = g.candlesElapsed,
                                    !.status = g.status] = g
                       /\ setups[i] = x

C3_Witness ==
    /\ Len(monitorResult.stillActive) = 1
    /\ Len(monitorResult.expired) = 1
    /\ given[1].status = "WAITING"
    /\ monitorResult.stillActive[1].id = given[1].id
    /\ monitorResult.stillActive[1].candlesElapsed = given[1].candlesElapsed + 1
    /\ monitorResult.expired[1].id = given[2].id
    /\ monitorResult.expired[1].candlesElapsed = 10

-----------------------------------------------------------------------------
(* SpecOutcome: checkOutcome applied to a trade setup and a candle's       *)
(* high and low.                                                           *)

OutcomePrices == {10947, 10948, 10949, 11049, 11050, 11051}

\* stop and target on either side of the entry, and coinciding
OutcomeSetups ==
    { TradeSetup(d, 10999, lv[1], lv[2], 0, SwingPoint(0, 0, 0, "LOW")) :
        d \in {"BUY", "SELL"},
        lv \in {<<10948, 11050>>, <<11050, 10948>>, <<10948, 10948>>} }

InitOutcome ==
    /\ ocSetup \in OutcomeSetups
    /\ ocHigh \in OutcomePrices
    /\ ocLow \in {p \in OutcomePrices : p <= ocHigh}
    /\ ocResult = "NONE"
    /\ IdleMonitor /\ IdleCall /\ IdleManager /\ IdleCron

CheckOutcome ==
    /\ ocResult = "NONE"
    /\ ocResult' = checkOutcome(ocSetup, ocHigh, ocLow)
    /\ UNCHANGED <<ocSetup, ocHigh, ocLow>>
    /\ UNCHANGED <<monitorVars, callVars, managerVars, cronVars>>

NextOutcome == CheckOutcome

SpecOutcome == InitOutcome /\ [][NextOutcome]_vars

\* C9: checkOutcome returns, for BUY, WIN iff high >= takeProfit, otherwise
\* LOSS iff low <= stopLoss, otherwise OPEN; for SELL, WIN iff
\* low <= takeProfit, otherwise LOSS iff high >= stopLoss, otherwise OPEN;
\* when target and stop are both hit on the same candle the result is WIN.
C9_OutcomeRule ==
    ocResult # "NONE" =>
        LET target == IF ocSetup.direction = "BUY"
                      THEN ocHigh >= ocSetup.takeProfit
                      ELSE ocLow <= ocSetup.takeProfit
            stop == IF ocSetup.direction = "BUY"
                    THEN ocLow <= ocSetup.stopLoss
                    ELSE ocHigh >= ocSetup.stopLoss
        IN  /\ ocResult \in {"WIN", "LOSS", "OPEN"}
            /\ ocResult = "WIN" <=> target
            /\ ocResult = "LOSS" <=> (~target /\ stop)
            /\ ocResult = "OPEN" <=> (~target /\ ~stop)
            /\ (target /\ stop) => ocResult = "WIN"

C9_Witness ==
    /\ ocSetup.direction = "BUY"
    /\ ocSetup.stopLoss = 10948
    /\ ocSetup.takeProfit = 11050
    /\ ocHigh = 11051
    /\ ocLow = 10947
    /\ ocResult = "WIN"

-----------------------------------------------------------------------------
(* SignalManager                                                           *)

MaxAdd == 2

\* generateId: a token no earlier call returned
generateId == idCounter + 1

createSignal_fixedId(setup, entryTime, id) ==
    Signal(1, setup.id, setup.pair, setup.timeframe, setup.direction,
           setup.entryZone, setup.stopLoss, setup.takeProfit, entryTime, "NULL", 0)

createSignal_stopAsEntry(setup, entryTime, id) ==
    Signal(id, setup.id, setup.pair, setup.timeframe, setup.direction,
           setup.stopLoss, setup.stopLoss, setup.takeProfit, entryTime, "NULL", 0)

createSignal(setup, entryTime, id) ==
    Signal(id, setup.id, setup.pair, setup.timeframe, setup.direction,
           setup.entryZone, setup.stopLoss, setup.takeProfit, entryTime, "NULL", 0)

SignalCandleM == Candle(0, 11008, 11008, 10995, 10997, TRUE)

\* setups a caller may add (createActiveSetup gives WAITING with 0 candles; the
\* last two are setups restored in a terminal state)
SetupTemplates ==
    { ActiveSetup(0, "GBP_USD", "M15", "BUY", SignalCandleA, 10999, 10948, 11050, 0, "WAITING"),
      ActiveSetup(0, "GBP_USD", "M15", "SELL", SignalCandleM, 11008, 11050, 10966, 8, "WAITING"),
      ActiveSetup(0, "USD_JPY", "M15", "BUY", SignalCandleA, 10999, 10948, 11050, 8, "WAITING"),
      ActiveSetup(0, "GBP_USD", "H1", "SELL", SignalCandleM, 11008, 11050, 10966, 9, "WAITING"),
      ActiveSetup(0, "GBP_USD", "M15", "BUY", SignalCandleA, 10999, 10948, 11050, 3, "TRIGGERED"),
      ActiveSetup(0, "GBP_USD", "M15", "SELL", SignalCandleM, 11008, 11050, 10966, 10, "EXPIRED") }

ManagerPairs == {"GBP_USD", "USD_JPY"}

ManagerTimeframes == {"M15", "H1"}

\* complete candles: no retracement; retraces SELL and hits the BUY target /
\* SELL stop; retraces BUY and hits the BUY stop / SELL target
ManagerCandles ==
    { Candle(101, 11006, 11007, 11005, 11006, TRUE),
      Candle(102, 11006, 11051, 11006, 11050, TRUE),
      Candle(103, 10999, 10999, 10947, 10948, TRUE) }

InitManager ==
    /\ activeSetups = <<>>
    /\ triggeredSignals = <<>>
    /\ expiredSetups = <<>>
    /\ completedSignals = <<>>
    /\ idCounter = 0
    /\ added = <<>>
    /\ triggeredLog = {}
    /\ IdleMonitor /\ IdleOutcome /\ IdleCall /\ IdleCron

AddSetup(template) ==
    /\ Len(added) < MaxAdd
    /\ LET setup == [template EXCEPT !.id = generateId]
       IN  /\ activeSetups' = MapSet(activeSetups, setup)
           /\ added' = Append(added, setup)
    /\ idCounter' = idCounter + 1
    /\ UNCHANGED <<triggeredSignals, expiredSetups, completedSignals, triggeredLog>>
    /\ UNCHANGED <<monitorVars, outcomeVars, callVars, cronVars>>

RECURSIVE DeleteAll(_, _)
DeleteAll(m, ss) ==
    IF ss = <<>> THEN m ELSE DeleteAll(MapDelete(m, Head(ss).id), Tail(ss))

RECURSIVE SetAll(_, _)
SetAll(m, ss) ==
    IF ss = <<>> THEN m ELSE SetAll(MapSet(m, Head(ss)), Tail(ss))

ProcessNewCandle_anyTimeframe(pair, timeframe, candle) ==
    LET relevantSetups ==
            SelectSeq(activeSetups,
                      LAMBDA s : s.pair = pair /\ s.status = "WAITING")
        result == monitorSetups(relevantSetups, candle)
        \* the i-th triggered setup gets the i-th id generated in this call
        newSignals ==
            [i \in 1..Len(result.triggered) |->
                createSignal([result.triggered[i] EXCEPT !.status = "TRIGGERED"],
                             candle.time, idCounter + i)]
        nowExpired == MapSeq(result.expired, LAMBDA s : [s EXCEPT !.status = "EXPIRED"])
    IN  /\ triggeredSignals' = SetAll(triggeredSignals, newSignals)
        /\ expiredSetups' = expiredSetups \o nowExpired
        /\ activeSetups' =
               SetAll(DeleteAll(DeleteAll(activeSetups, result.triggered), nowExpired),
                      result.stillActive)
        /\ idCounter' = idCounter + Len(result.triggered)
        /\ triggeredLog' = triggeredLog \cup {s.id : s \in Range(result.triggered)}
        /\ UNCHANGED <<completedSignals, added>>
        /\ UNCHANGED <<monitorVars, outcomeVars, callVars, cronVars>>

ProcessNewCandle(pair, timeframe, candle) ==
    LET relevantSetups ==
            SelectSeq(activeSetups,
                      LAMBDA s : s.pair = pair /\ s.timeframe = timeframe
                                                /\ s.status = "WAITING")
        result == monitorSetups(relevantSetups, candle)
        \* the i-th triggered setup gets the i-th id generated in this call
        newSignals ==
            [i \in 1..Len(result.triggered) |->
                createSignal([result.triggered[i] EXCEPT !.status = "TRIGGERED"],
                             candle.time, idCounter + i)]
        nowExpired == MapSeq(result.expired, LAMBDA s : [s EXCEPT !.status = "EXPIRED"])
    IN  /\ triggeredSignals' = SetAll(triggeredSignals, newSignals)
        /\ expiredSetups' = expiredSetups \o nowExpired
        /\ activeSetups' =
               SetAll(DeleteAll(DeleteAll(activeSetups, result.triggered), nowExpired),
                      result.stillActive)
        /\ idCounter' = idCounter + Len(result.triggered)
        /\ triggeredLog' = triggeredLog \cup {s.id : s \in Range(result.triggered)}
        /\ UNCHANGED <<completedSignals, added>>
        /\ UNCHANGED <<monitorVars, outcomeVars, callVars, cronVars>>

CheckSignalOutcomes_keep(pair, candle) ==
    LET Outcome(signal) ==
            checkOutcome(TradeSetup(signal.direction, signal.entryPrice, signal.stopLoss,
                                    signal.takeProfit, 0, SwingPoint(0, 0, 0, "LOW")),
                         candle.high, candle.low)
        Closing(g) == g.pair = pair /\ g.outcome = "NULL" /\ Outcome(g) # "OPEN"
        Closed(g) == [g EXCEPT !.outcome = Outcome(g), !.outcomeTime = candle.time]
    IN  /\ completedSignals' =
               completedSignals \o MapSeq(SelectSeq(triggeredSignals, Closing), Closed)
        /\ triggeredSignals' =
               [k \in 1..Len(triggeredSignals) |->
                   IF Closing(triggeredSignals[k]) THEN Closed(triggeredSignals[k])
                   ELSE triggeredSignals[k]]
        /\ UNCHANGED <<activeSetups, expiredSetups, idCounter, added, triggeredLog>>
        /\ UNCHANGED <<monitorVars, outcomeVars, callVars, cronVars>>

CheckSignalOutcomes(pair, candle) ==
    LET Outcome(signal) ==
            checkOutcome(TradeSetup(signal.direction, signal.entryPrice, signal.stopLoss,
                                    signal.takeProfit, 0, SwingPoint(0, 0, 0, "LOW")),
                         candle.high, candle.low)
        relevantSignals ==
            SelectSeq(triggeredSignals,
                      LAMBDA s : s.pair = pair /\ s.outcome = "NULL")
        closing == SelectSeq(relevantSignals, LAMBDA s : Outcome(s) # "OPEN")
        closedSignals ==
            MapSeq(closing, LAMBDA s : [s EXCEPT !.outcome = Outcome(s),
                                                 !.outcomeTime = candle.time])
    IN  /\ completedSignals' = completedSignals \o closedSignals
        /\ triggeredSignals' = DeleteAll(triggeredSignals, closedSignals)
        /\ UNCHANGED <<activeSetups, expiredSetups, idCounter, added, triggeredLog>>
        /\ UNCHANGED <<monitorVars, outcomeVars, callVars, cronVars>>

NextManager ==
    \/ \E template \in SetupTemplates : AddSetup(template)
    \/ \E pair \in ManagerPairs, timeframe \in ManagerTimeframes, candle \in ManagerCandles :
           ProcessNewCandle(pair, timeframe, candle)
    \/ \E pair \in ManagerPairs, candle \in ManagerCandles :
           CheckSignalOutcomes(pair, candle)

SpecManager == InitManager /\ [][NextManager]_vars

-----------------------------------------------------------------------------
(* Claims settled under SpecManager                                        *)

Terminal(x) == x.status \in {"TRIGGERED", "EXPIRED"}

\* every setup object the manager holds
Held == Range(activeSetups) \cup Range(expiredSetups)

AllSignals == Range(triggeredSignals) \cup Range(completedSignals)

\* C4: a TRIGGERED or EXPIRED setup is a no-op for the Retracement Monitor:
\* monitorSetups, applied to every setup the manager holds and any candle,
\* returns no terminal setup in any of its lists; and no step of the manager
\* changes a terminal setup it holds (status and candlesElapsed stay), moves
\* an expired setup back among the active ones, or brings back a setup that
\* was triggered.
C4_TerminalNoOp ==
    /\ [](\A c \in ManagerCandles :
              LET r == monitorSetups(activeSetups \o expiredSetups, c)
              IN  \A x \in Held :
                      Terminal(x) => \A y \in Range(Returned(r)) : y.id # x.id)
    /\ [][
          /\ \A x \in Range(activeSetups) :
                 Terminal(x) => x \in Range(activeSetups')
          /\ \A x \in Range(expiredSetups) :
                 /\ x.status = "EXPIRED"
                 /\ x \in Range(expiredSetups')
                 /\ \A y \in Range(activeSetups') : y.id # x.id
          /\ \A id \in triggeredLog :
                 \A y \in Range(activeSetups') \cup Range(expiredSetups') : y.id # id
       ]_vars

C4_Witness ==
    /\ Len(expiredSetups) = 1
    /\ triggeredLog # {}
    /\ \E i \in 1..Len(added) :
           /\ added[i].id = expiredSetups[1].id
           /\ added[i].status = "WAITING"
    /\ Len(triggeredSignals) = 1

\* C5: exactly one Signal exists for each added setup that monitorSetups
\* returned as triggered and none for any other setup (none for a setup still
\* held as active or expired); the Signal carries the setup's id, direction,
\* entryZone (as entryPrice), stopLoss and takeProfit, and a Signal that has
\* not been closed has outcome null.
C5_OneSignalPerTrigger ==
    /\ \A i \in 1..Len(added) :
           LET a == added[i]
               sigs == SelectSeq(triggeredSignals \o completedSignals,
                                 LAMBDA s : s.setupId = a.id)
           IN  /\ Len(sigs) = IF a.id \in triggeredLog THEN 1 ELSE 0
               /\ a.status # "WAITING" => Len(sigs) = 0
               /\ \A s \in Range(sigs) :
                      /\ s.direction = a.direction
                      /\ s.entryPrice = a.entryZone
                      /\ s.stopLoss = a.stopLoss
                      /\ s.takeProfit = a.takeProfit
                      /\ s.pair = a.pair
                      /\ s.timeframe = a.timeframe
    /\ \A s \in AllSignals :
           /\ \E i \in 1..Len(added) : added[i].id = s.setupId
           /\ \A x \in Held : x.id # s.setupId
    /\ \A s \in Range(triggeredSignals) : s.outcome = "NULL" /\ s.outcomeTime = 0
    /\ \A i, j \in 1..Len(triggeredSignals) :
           triggeredSignals[i].id = triggeredSignals[j].id => i = j

C5_Witness ==
    /\ Len(added) = 2
    /\ Len(triggeredSignals) = 1
    /\ triggeredSignals[1].setupId = added[2].id
    /\ triggeredSignals[1].entryPrice = added[2].entryZone
    /\ triggeredSignals[1].outcome = "NULL"
    /\ Len(completedSignals) = 1
    /\ completedSignals[1].setupId = added[1].id
    /\ completedSignals[1].outcome = "WIN"

\* getStats; winRate = wins / total * 100 is kept as the fraction
\* winRateNum / winRateDen (0 / 1 when there is no completed signal)
getStats ==
    LET wins == Len(SelectSeq(completedSignals, LAMBDA g : g.outcome = "WIN"))
        losses == Len(SelectSeq(completedSignals, LAMBDA g : g.outcome = "LOSS"))
        total == wins + losses
    IN  [activeSetups |-> Len(activeSetups),
         openSignals |-> Len(triggeredSignals),
         completedSignals |-> Len(completedSignals),
         expiredSetups |-> Len(expiredSetups),
         wins |-> wins,
         losses |-> losses,
         winRateNum |-> IF total > 0 THEN wins * 100 ELSE 0,
         winRateDen |-> IF total > 0 THEN total ELSE 1]

\* the places where the manager holds the setup of an id, or a Signal for it
PlacesOf(id) ==
    Len(SelectSeq(activeSetups, LAMBDA x : x.id = id))
    + Len(SelectSeq(expiredSetups, LAMBDA x : x.id = id))
    + Len(SelectSeq(triggeredSignals \o completedSignals, LAMBDA g : g.setupId = id))

\* C32: every setup added is at all times in exactly one place: the active
\* map, the expired list, or as the setupId of exactly one Signal; the number
\* of setups added is the sum of activeSetups, expiredSetups, openSignals and
\* completedSignals of getStats.
C32_EverySetupAccounted ==
    /\ \A i \in 1..Len(added) : PlacesOf(added[i].id) = 1
    /\ Len(added) = getStats.activeSetups + getStats.expiredSetups
                        + getStats.openSignals + getStats.completedSignals

\* of two setups added, one has a completed Signal and one has expired
C32_Witness ==
    /\ Len(added) = 2
    /\ Len(activeSetups) = 0
    /\ Len(expiredSetups) = 1
    /\ Len(completedSignals) = 1
    /\ completedSignals[1].setupId # expiredSetups[1].id

\* two setups added, both triggered, one Signal still open
C32_WitnessBoth ==
    /\ Len(added) = 2
    /\ Len(triggeredSignals) = 1
    /\ Len(completedSignals) = 1

\* C33: every Signal among the triggered ones has outcome null, every
\* completed Signal has outcome WIN or LOSS, no Signal is in both
\* collections, wins + losses of getStats is the number of completed
\* signals, and no step changes or removes a completed Signal.
C33_OutcomeOnce ==
    /\ [](/\ \A g \in Range(triggeredSignals) : g.outcome = "NULL"
          /\ \A g \in Range(completedSignals) : g.outcome \in {"WIN", "LOSS"}
          /\ \A g \in Range(triggeredSignals) :
                 \A h \in Range(completedSignals) : g.id # h.id
          /\ getStats.wins + getStats.losses = Len(completedSignals))
    /\ [][/\ Len(completedSignals') >= Len(completedSignals)
          /\ \A k \in 1..Len(completedSignals) :
                 completedSignals'[k] = completedSignals[k]]_vars

\* one Signal closed as a WIN and one as a LOSS
C33_Witness ==
    /\ Len(completedSignals) = 2
    /\ getStats.wins = 1
    /\ getStats.losses = 1
    /\ triggeredSignals = <<>>

\* SpecFrame: the manager holding setups of two pairs and two timeframes
\* that have waited for eight or nine candles
FrameTemplates == {t \in SetupTemplates : t.status = "WAITING" /\ t.candlesElapsed >= 8}

NextFrame ==
    \/ \E template \in FrameTemplates : AddSetup(template)
    \/ \E pair \in ManagerPairs, timeframe \in ManagerTimeframes, candle \in ManagerCandles :
           ProcessNewCandle(pair, timeframe, candle)
    \/ \E pair \in ManagerPairs, candle \in ManagerCandles :
           CheckSignalOutcomes(pair, candle)

SpecFrame == InitManager /\ [][NextFrame]_vars

\* C34: processNewCandle(pair, timeframe, candle) leaves every active setup
\* of another pair or another timeframe as it is, keeps every triggered
\* Signal it found and does not touch the completed ones.
C34_OtherSetupsUntouched ==
    [][\A pair \in ManagerPairs, timeframe \in ManagerTimeframes, candle \in ManagerCandles :
           ProcessNewCandle(pair, timeframe, candle) =>
               /\ \A x \in Range(activeSetups) :
                      x.pair # pair \/ x.timeframe # timeframe =>
                          x \in Range(activeSetups')
               /\ \A g \in Range(triggeredSignals) : g \in Range(triggeredSignals')
               /\ completedSignals' = completedSignals]_vars

\* a candle of GBP_USD M15 has triggered one setup while the GBP_USD H1
\* setup added with it still waits with its nine candles
C34_Witness ==
    /\ Len(added) = 2
    /\ Len(triggeredSignals) = 1
    /\ triggeredSignals[1].timeframe = "M15"
    /\ Len(activeSetups) = 1
    /\ activeSetups[1].timeframe = "H1"
    /\ activeSetups[1] = added[1]

-----------------------------------------------------------------------------
(* SpecFresh: the SignalManager when every setup added is one that         *)
(* createActiveSetup made: WAITING with candlesElapsed 0.                  *)

isSetupValid(setup) ==
    setup.status = "WAITING" /\ ~isSetupExpired(setup.candlesElapsed)

FreshTemplates ==
    { ActiveSetup(0, "GBP_USD", "M15", "BUY", SignalCandleA, 10999, 10948, 11050, 0, "WAITING"),
      ActiveSetup(0, "GBP_USD", "M15", "SELL", SignalCandleM, 11008, 11050, 10966, 0, "WAITING"),
      ActiveSetup(0, "GBP_USD", "H1", "BUY", SignalCandleA, 10999, 10948, 11050, 0, "WAITING") }

NextFresh ==
    \/ \E template \in FreshTemplates : AddSetup(template)
    \/ \E pair \in ManagerPairs, timeframe \in ManagerTimeframes, candle \in ManagerCandles :
           ProcessNewCandle(pair, timeframe, candle)
    \/ \E pair \in ManagerPairs, candle \in ManagerCandles :
           CheckSignalOutcomes(pair, candle)

SpecFresh == InitManager /\ [][NextFresh]_vars

\* C31: when only fresh setups are added, every setup among the active ones
\* is WAITING with fewer than MAX_CANDLES_FOR_ENTRY candles elapsed, so
\* isSetupValid holds for it, and every setup in the expired list is EXPIRED
\* with exactly MAX_CANDLES_FOR_ENTRY candles elapsed.
C31_ActiveValidExpiredAtLimit ==
    /\ \A x \in Range(activeSetups) :
           /\ x.status = "WAITING"
           /\ x.candlesElapsed < MAX_CANDLES_FOR_ENTRY
           /\ isSetupValid(x)
    /\ \A x \in Range(expiredSetups) :
           /\ x.status = "EXPIRED"
           /\ x.candlesElapsed = MAX_CANDLES_FOR_ENTRY

\* one setup has expired while another has seen nine candles and waits
C31_Witness ==
    /\ Len(expiredSetups) = 1
    /\ expiredSetups[1].candlesElapsed = MAX_CANDLES_FOR_ENTRY
    /\ Len(activeSetups) = 1
    /\ activeSetups[1].candlesElapsed = MAX_CANDLES_FOR_ENTRY - 1

-----------------------------------------------------------------------------
(* Persistence (supabase.ts) over the tables of schema.sql.  Rows are kept *)
(* in insertion order; ids are generated by the callers and never repeat.  *)

\* a row of table signals: the Signal columns and outcome_price (0 = NULL)
SignalRow(signal, outcomePrice) ==
    [id |-> signal.id, setupId |-> signal.setupId, pair |-> signal.pair,
     timeframe |-> signal.timeframe, direction |-> signal.direction,
     entryPrice |-> signal.entryPrice, stopLoss |-> signal.stopLoss,
     takeProfit |-> signal.takeProfit, entryTime |-> signal.entryTime,
     outcome |-> signal.outcome, outcomeTime |-> signal.outcomeTime,
     outcomePrice |-> outcomePrice]

Reverse(q) == [i \in 1..Len(q) |-> q[Len(q) + 1 - i]]

\* insert into active_setups (no unique constraint besides the primary key)
saveActiveSetup(rows, setup) == Append(rows, setup)

\* select * from active_setups where status = 'WAITING' order by created_at desc
getActiveSetups(rows) == Reverse(SelectSeq(rows, LAMBDA r : r.status = "WAITING"))

\* update active_setups set status = ... where id = ...
updateSetupStatus(rows, id, status) ==
    [i \in 1..Len(rows) |->
        IF rows[i].id = id THEN [rows[i] EXCEPT !.status = status] ELSE rows[i]]

\* update active_setups set candles_elapsed = ... where id = ...
updateSetupCount(rows, id, candlesElapsed) ==
    [i \in 1..Len(rows) |->
        IF rows[i].id = id THEN [rows[i] EXCEPT !.candlesElapsed = candlesElapsed]
        ELSE rows[i]]

markSetupTriggered(rows, id) == updateSetupStatus(rows, id, "TRIGGERED")

markSetupExpired(rows, id) == updateSetupStatus(rows, id, "EXPIRED")

\* select id from active_setups where pair = ... and signal_candle_time = ... limit 1
setupExists(rows, pair, signalTime) ==
    \E i \in 1..Len(rows) : rows[i].pair = pair /\ rows[i].signalCandleTime = signalTime

\* insert into signals
saveSignal(rows, signal) == Append(rows, SignalRow(signal, 0))

\* select * from signals where outcome is null order by entry_time desc
\* (rows of equal entry_time: latest insertion first)
RECURSIVE SortByEntryTimeDesc(_)
SortByEntryTimeDesc(q) ==
    IF q = <<>> THEN <<>>
    ELSE LET top == CHOOSE i \in 1..Len(q) :
                        \A j \in 1..Len(q) :
                            \/ q[j].entryTime < q[i].entryTime
                            \/ q[j].entryTime = q[i].entryTime /\ j <= i
             rest == [j \in 1..(Len(q) - 1) |-> IF j < top THEN q[j] ELSE q[j + 1]]
         IN  <<q[top]>> \o SortByEntryTimeDesc(rest)

getOpenSignals(rows) ==
    SortByEntryTimeDesc(SelectSeq(rows, LAMBDA r : r.outcome = "NULL"))

\* update signals set outcome = ..., outcome_time = ... [, outcome_price = ...]
\* where id = ...   (outcomePrice 0: the argument was left out)
updateSignalOutcome(rows, id, outcome, outcomeTime, outcomePrice) ==
    [i \in 1..Len(rows) |->
        IF rows[i].id = id
        THEN [rows[i] EXCEPT !.outcome = outcome,
                             !.outcomeTime = outcomeTime,
                             !.outcomePrice = IF outcomePrice # 0 THEN outcomePrice
                                              ELSE @]
        ELSE rows[i]]

\* update active_setups set status = 'EXPIRED'
\* where status = 'WAITING' and candles_elapsed >= 10
expireOldSetups(rows) ==
    [i \in 1..Len(rows) |->
        IF rows[i].status = "WAITING" /\ rows[i].candlesElapsed >= 10
        THEN [rows[i] EXCEPT !.status = "EXPIRED"] ELSE rows[i]]

expireOldSetupsCount(rows) ==
    Len(SelectSeq(rows, LAMBDA r : r.status = "WAITING" /\ r.candlesElapsed >= 10))

\* oanda.ts: the most recent complete candle of the fetched ones, if any
hasCompleteCandle(candles) == Len(candles) > 0

getLatestCompleteCandle(candles) == candles[Len(candles)]

-----------------------------------------------------------------------------
(* SpecCron and SpecSignals: GET /api/cron invocations and POST            *)
(* /api/signals requests run against the shared tables while the market    *)
(* publishes complete candles.                                             *)
(* An invocation takes one step per database call and per candle fetch.    *)

MaxMarket == 2
MaxRuns == 2
MaxPosts == 1

Invocations == {1, 2}
CronPair == "GBP_USD"
CronTimeframes == {"M15"}

\* the candles the market may publish (time is filled in on publication):
\* a bullish candle without lower wick, a candle with both wicks, and a
\* bearish candle without upper wick
CandleUp == Candle(0, 11000, 11010, 11000, 11008, TRUE)
CandleIn == Candle(0, 11004, 11008, 11002, 11006, TRUE)
CandleDown == Candle(0, 11003, 11003, 10947, 10950, TRUE)
MarketShapes == {CandleUp, CandleIn, CandleDown}

AtTime(shape, time) == [shape EXCEPT !.time = time]

\* distance from entry zone to stop loss found by the structure analysis
StructureRisk == 51

\* scanner.ts scanPair: the signal, if any, is on the most recent complete
\* candle; the entry zone is its low (BUY) or its high (SELL).  Whether the
\* trend allows the signal depends on older candles and is left open.
DetailedScanResult(pair, timeframe, candle, setup) ==
    [pair |-> pair, timeframe |-> timeframe, wicklessDetected |-> TRUE,
     wicklessCandle |-> candle, setup |-> setup]

scanPair(candles, pair, timeframe) ==
    IF ~hasCompleteCandle(candles) THEN {}
    ELSE LET lastCandle == getLatestCompleteCandle(candles)
             buy == TradeSetup("BUY", lastCandle.low, lastCandle.low - StructureRisk,
                               lastCandle.low + StructureRisk, StructureRisk,
                               SwingPoint(0, 0, lastCandle.low - StructureRisk, "LOW"))
             sell == TradeSetup("SELL", lastCandle.high, lastCandle.high + StructureRisk,
                                lastCandle.high - StructureRisk, StructureRisk,
                                SwingPoint(0, 0, lastCandle.high + StructureRisk, "HIGH"))
         IN  (IF lastCandle.close > lastCandle.open /\ lastCandle.low = lastCandle.open
              THEN {DetailedScanResult(pair, timeframe, lastCandle, buy)} ELSE {})
             \cup
             (IF lastCandle.close < lastCandle.open /\ lastCandle.high = lastCandle.open
              THEN {DetailedScanResult(pair, timeframe, lastCandle, sell)} ELSE {})

\* signalsFound of scanMultiplePairs: nothing, or the signal of the pair
scanMultiplePairs(candles, timeframe) ==
    {<<>>} \cup {<<r>> : r \in scanPair(candles, CronPair, timeframe)}

NoResults ==
    [newSignals |-> 0, triggeredEntries |-> 0, expiredSetups |-> 0,
     wins |-> 0, losses |-> 0]

IdleInvocation ==
    [pc |-> "idle", run |-> 0, timeframe |-> "M15", signalsFound |-> <<>>,
     activeSetups |-> <<>>, latestCandle |-> NoCandle, openSignals |-> <<>>,
     results |-> NoResults]

\* the tables are empty and no candle is complete yet, or an earlier
\* invocation stored a BUY setup on a candle that is no longer among the
\* recent ones and nine invocations have since seen a candle above its
\* entry zone
AgedSetup ==
    ActiveSetup(1, CronPair, "M15", "BUY", AtTime(CandleUp, 0),
                11000, 11000 - StructureRisk, 11000 + StructureRisk, 9, "WAITING")

InitCron ==
    /\ \/ /\ market = <<>>
          /\ active_setups = <<>>
          /\ dbIds = 0
       \/ /\ market = <<AtTime(CandleIn, 1)>>
          /\ active_setups = <<AgedSetup>>
          /\ dbIds = 1
    /\ signals = <<>>
    /\ cron = [i \in Invocations |-> IdleInvocation]
    /\ runs = 0
    /\ applied = {}
    /\ posts = 0
    /\ IdleMonitor /\ IdleOutcome /\ IdleCall /\ IdleManager

CronUnchanged == UNCHANGED <<monitorVars, outcomeVars, callVars, managerVars>>

\* the market completes a candle
NewCandle(shape) ==
    /\ Len(market) < MaxMarket
    /\ market' = Append(market, AtTime(shape, Len(market) + 1))
    /\ UNCHANGED <<active_setups, signals, cron, runs, applied, posts, dbIds>>
    /\ CronUnchanged

\* GET /api/cron, up to the end of the scan of STEP 1 (a request is served
\* in the lowest free slot)
CronScan(i, timeframe) ==
    /\ cron[i].pc \in {"idle", "done"}
    /\ \A j \in Invocations : j < i => cron[j].pc \notin {"idle", "done"}
    /\ runs < MaxRuns
    /\ runs' = runs + 1
    /\ \E found \in scanMultiplePairs(market, timeframe) :
           cron' = [cron EXCEPT ![i] =
                       [IdleInvocation EXCEPT !.pc = "step1", !.run = runs + 1,
                                              !.timeframe = timeframe,
                                              !.signalsFound = found]]
    /\ UNCHANGED <<active_setups, signals, market, applied, posts, dbIds>>
    /\ CronUnchanged

\* createAndSaveSetup, first half: the setupExists query
CronSetupExists(i) ==
    /\ cron[i].pc = "step1"
    /\ cron[i].signalsFound # <<>>
    /\ LET signal == Head(cron[i].signalsFound)
           exists == setupExists(active_setups, signal.pair, signal.wicklessCandle.time)
       IN  cron' = [cron EXCEPT ![i] =
                       IF exists
                       THEN [@ EXCEPT !.signalsFound = Tail(@)]
                       ELSE [@ EXCEPT !.pc = "insert"]]
    /\ UNCHANGED <<active_setups, signals, market, runs, applied, posts, dbIds>>
    /\ CronUnchanged

\* createAndSaveSetup, second half: the insert, counted in newSignals
CronSaveSetup(i) ==
    /\ cron[i].pc = "insert"
    /\ LET scanResult == Head(cron[i].signalsFound)
           setup == ActiveSetup(dbIds + 1, scanResult.pair, scanResult.timeframe,
                                scanResult.setup.direction, scanResult.wicklessCandle,
                                scanResult.setup.entryZone, scanResult.setup.stopLoss,
                                scanResult.setup.takeProfit, 0, "WAITING")
       IN  active_setups' = saveActiveSetup(active_setups, setup)
    /\ dbIds' = dbIds + 1
    /\ cron' = [cron EXCEPT ![i] =
                   [@ EXCEPT !.pc = "step1", !.signalsFound = Tail(@),
                             !.results.newSignals = @ + 1]]
    /\ UNCHANGED <<signals, market, runs, applied, posts>>
    /\ CronUnchanged

\* STEP 2 begins: the WAITING setups are read once
CronGetActiveSetups(i) ==
    /\ cron[i].pc = "step1"
    /\ cron[i].signalsFound = <<>>
    /\ cron' = [cron EXCEPT ![i] =
                   [@ EXCEPT !.pc = "step2",
                             !.activeSetups = getActiveSetups(active_setups)]]
    /\ UNCHANGED <<active_setups, signals, market, runs, applied, posts, dbIds>>
    /\ CronUnchanged

\* STEP 2, one setup of the list read: skip it, or fetch the latest complete
\* candle for it
CronFetchForSetup(i) ==
    /\ cron[i].pc = "step2"
    /\ cron[i].activeSetups # <<>>
    /\ LET setup == Head(cron[i].activeSetups)
       IN  cron' = [cron EXCEPT ![i] =
                       IF setup.timeframe # cron[i].timeframe \/ ~hasCompleteCandle(market)
                       THEN [@ EXCEPT !.activeSetups = Tail(@)]
                       ELSE [@ EXCEPT !.pc = "monitor",
                                      !.latestCandle = getLatestCompleteCandle(market)]]
    /\ UNCHANGED <<active_setups, signals, market, runs, applied, posts, dbIds>>
    /\ CronUnchanged

\* STEP 2, the setup against the fetched candle: the transition or the new
\* candle count is written
CronMonitorSetup(i) ==
    /\ cron[i].pc = "monitor"
    /\ LET setup == Head(cron[i].activeSetups)
           latestCandle == cron[i].latestCandle
           triggered == IF setup.direction = "BUY"
                        THEN latestCandle.low <= setup.entryZone
                        ELSE latestCandle.high >= setup.entryZone
           newCount == setup.candlesElapsed + 1
           write == [id |-> setup.id, candlesElapsed |-> setup.candlesElapsed,
                     run |-> cron[i].run, candleTime |-> latestCandle.time,
                     signalCandleTime |-> setup.signalCandleTime]
       IN  /\ applied' = applied \cup {write}
           /\ IF triggered
              THEN /\ active_setups' = markSetupTriggered(active_setups, setup.id)
                   /\ cron' = [cron EXCEPT ![i] = [@ EXCEPT !.pc = "signal"]]
              ELSE IF newCount >= 10
              THEN /\ active_setups' = markSetupExpired(active_setups, setup.id)
                   /\ cron' = [cron EXCEPT ![i] =
                                  [@ EXCEPT !.pc = "step2",
                                            !.activeSetups = Tail(@),
                                            !.latestCandle = NoCandle,
                                            !.results.expiredSetups = @ + 1]]
              ELSE /\ active_setups' =
                          updateSetupCount(active_setups, setup.id, newCount)
                   /\ cron' = [cron EXCEPT ![i] =
                                  [@ EXCEPT !.pc = "step2",
                                            !.activeSetups = Tail(@),
                                            !.latestCandle = NoCandle]]
    /\ UNCHANGED <<signals, market, runs, posts, dbIds>>
    /\ CronUnchanged

\* STEP 2, after markSetupTriggered: the Signal record is inserted
CronSaveSignal(i) ==
    /\ cron[i].pc = "signal"
    /\ LET setup == Head(cron[i].activeSetups)
           signal == Signal(dbIds + 1, setup.id, setup.pair, setup.timeframe,
                            setup.direction, setup.entryZone, setup.stopLoss,
                            setup.takeProfit, cron[i].latestCandle.time, "NULL", 0)
       IN  signals' = saveSignal(signals, signal)
    /\ dbIds' = dbIds + 1
    /\ cron' = [cron EXCEPT ![i] =
                   [@ EXCEPT !.pc = "step2", !.activeSetups = Tail(@),
                             !.latestCandle = NoCandle,
                             !.results.triggeredEntries = @ + 1]]
    /\ UNCHANGED <<active_setups, market, runs, applied, posts>>
    /\ CronUnchanged

\* STEP 3 begins: the open signals are read once
CronGetOpenSignals(i) ==
    /\ cron[i].pc = "step2"
    /\ cron[i].activeSetups = <<>>
    /\ cron' = [cron EXCEPT ![i] =
                   [@ EXCEPT !.pc = "step3",
                             !.openSignals = getOpenSignals(signals)]]
    /\ UNCHANGED <<active_setups, signals, market, runs, applied, posts, dbIds>>
    /\ CronUnchanged

\* STEP 3, one signal of the list read: skip it, or fetch the latest complete
\* candle for it
CronFetchForSignal(i) ==
    /\ cron[i].pc = "step3"
    /\ cron[i].openSignals # <<>>
    /\ LET signal == Head(cron[i].openSignals)
       IN  cron' = [cron EXCEPT ![i] =
                       IF signal.timeframe # cron[i].timeframe \/ ~hasCompleteCandle(market)
                       THEN [@ EXCEPT !.openSignals = Tail(@)]
                       ELSE [@ EXCEPT !.pc = "outcome",
                                      !.latestCandle = getLatestCompleteCandle(market)]]
    /\ UNCHANGED <<active_setups, signals, market, runs, applied, posts, dbIds>>
    /\ CronUnchanged

\* STEP 3, the signal against the fetched candle: the outcome is written
\* unless the signal stays open
CronCheckSignal(i) ==
    /\ cron[i].pc = "outcome"
    /\ LET signal == Head(cron[i].openSignals)
           latestCandle == cron[i].latestCandle
           outcome == checkOutcome(
                          TradeSetup(signal.direction, signal.entryPrice,
                                     signal.stopLoss, signal.takeProfit, 0,
                                     SwingPoint(0, 0, 0, "LOW")),
                          latestCandle.high, latestCandle.low)
           outcomePrice == IF outcome = "WIN" THEN signal.takeProfit
                           ELSE signal.stopLoss
       IN  /\ signals' = IF outcome = "OPEN" THEN signals
                         ELSE updateSignalOutcome(signals, signal.id, outcome,
                                                  latestCandle.time, outcomePrice)
           /\ cron' = [cron EXCEPT ![i] =
                          [@ EXCEPT !.pc = "step3",
                                    !.openSignals = Tail(@),
                                    !.latestCandle = NoCandle,
                                    !.results.wins =
                                        IF outcome = "WIN" THEN @ + 1 ELSE @,
                                    !.results.losses =
                                        IF outcome = "LOSS" THEN @ + 1 ELSE @]]
    /\ UNCHANGED <<active_setups, market, runs, applied, posts, dbIds>>
    /\ CronUnchanged

\* STEP 4 and the response
CronExpireOld(i) ==
    /\ cron[i].pc = "step3"
    /\ cron[i].openSignals = <<>>
    /\ active_setups' = expireOldSetups(active_setups)
    /\ cron' = [cron EXCEPT ![i] =
                   [@ EXCEPT !.pc = "done",
                             !.results.expiredSetups =
                                 @ + expireOldSetupsCount(active_setups)]]
    /\ UNCHANGED <<signals, market, runs, applied, posts, dbIds>>
    /\ CronUnchanged

\* POST /api/signals with a body that passes validation and names a stored
\* signal; outcomePrice 0 stands for a body without the optional field
PostOutcomeTimes == {99}
PostOutcomePrices == {0, 11000}

PostSignalOutcome(id, outcome, outcomeTime, outcomePrice) ==
    /\ posts < MaxPosts
    /\ posts' = posts + 1
    /\ signals' = updateSignalOutcome(signals, id, outcome, outcomeTime, outcomePrice)
    /\ UNCHANGED <<active_setups, market, cron, runs, applied, dbIds>>
    /\ CronUnchanged

CronStep(i) ==
    \/ \E timeframe \in CronTimeframes : CronScan(i, timeframe)
    \/ CronSetupExists(i)
    \/ CronSaveSetup(i)
    \/ CronGetActiveSetups(i)
    \/ CronFetchForSetup(i)
    \/ CronMonitorSetup(i)
    \/ CronSaveSignal(i)
    \/ CronGetOpenSignals(i)
    \/ CronFetchForSignal(i)
    \/ CronCheckSignal(i)
    \/ CronExpireOld(i)

\* invocations of GET /api/cron overlap freely
NextCron ==
    \/ \E shape \in MarketShapes : NewCandle(shape)
    \/ \E i \in Invocations : CronStep(i)

SpecCron == InitCron /\ [][NextCron]_vars

\* invocations of GET /api/cron follow one another while POST /api/signals
\* requests arrive
PostSignals ==
    \E k \in 1..Len(signals), outcome \in {"WIN", "LOSS"},
       outcomeTime \in PostOutcomeTimes, outcomePrice \in PostOutcomePrices :
        PostSignalOutcome(signals[k].id, outcome, outcomeTime, outcomePrice)

NextSignals ==
    \/ \E shape \in MarketShapes : NewCandle(shape)
    \/ CronStep(1)
    \/ PostSignals

SpecSignals == InitCron /\ [][NextSignals]_vars

\* the Signal rows stored for a setup
SignalsOf(id) == SelectSeq(signals, LAMBDA g : g.setupId = id)

\* C6: of the invocations that read the same WAITING setup (the same row with
\* the same candle count) in STEP 2, at most one writes a transition or a
\* candle count for it; no setup has two Signals, and no EXPIRED setup has a
\* Signal.
C6_SingleTransition ==
    /\ \A a \in applied : \A b \in applied :
           a.id = b.id /\ a.candlesElapsed = b.candlesElapsed => a.run = b.run
    /\ \A k \in 1..Len(active_setups) :
           /\ Len(SignalsOf(active_setups[k].id)) <= 1
           /\ active_setups[k].status = "EXPIRED" =>
                  Len(SignalsOf(active_setups[k].id)) = 0

\* C7: once a stored Signal has outcome WIN or LOSS, no step changes its
\* outcome, its outcome time or its outcome price.
C7_OutcomeWrittenOnce ==
    [][\A k \in 1..Len(signals) :
           signals[k].outcome # "NULL" =>
               /\ signals'[k].outcome = signals[k].outcome
               /\ signals'[k].outcomeTime = signals[k].outcomeTime
               /\ signals'[k].outcomePrice = signals[k].outcomePrice]_vars

\* C8: a stored Signal has outcome WIN (LOSS) only if checkOutcome returns WIN
\* (LOSS) for its direction, stop loss and take profit against a candle the
\* market has published, closed at that candle's time.
C8_OutcomeOnlyByEvaluator ==
    \A k \in 1..Len(signals) :
        signals[k].outcome # "NULL" =>
            \E n \in 1..Len(market) :
                /\ signals[k].outcomeTime = market[n].time
                /\ checkOutcome(
                       TradeSetup(signals[k].direction, signals[k].entryPrice,
                                  signals[k].stopLoss, signals[k].takeProfit, 0,
                                  SwingPoint(0, 0, 0, "LOW")),
                       market[n].high, market[n].low) = signals[k].outcome

\* C10: table active_setups holds at most one row per pair and signal candle
\* time.
C10_OneSetupPerSignalCandle ==
    \A j \in 1..Len(active_setups) : \A k \in 1..Len(active_setups) :
        /\ active_setups[j].pair = active_setups[k].pair
        /\ active_setups[j].signalCandleTime = active_setups[k].signalCandleTime
        => j = k

\* C25: in the cron cycle a setup is triggered, expired or advanced only by
\* a complete candle that closed strictly after its signal candle; the signal
\* candle itself is never fed to the setup, not even by the invocation whose
\* STEP 1 stored the setup.
C25_OnlyLaterCandles ==
    \A write \in applied : write.candleTime > write.signalCandleTime

\* the complete candles published after the signal candle of a setup
CandlesAfter(setup) ==
    {n \in 1..Len(market) : market[n].time > setup.signalCandleTime}

\* C26: across any sequence of invocations each complete candle is presented
\* at most once to each WAITING setup, and the stored candlesElapsed of a
\* setup whose signal candle the market published never exceeds the number
\* of distinct complete candles that closed after that signal candle.
C26_OncePerCandle ==
    /\ \A a \in applied : \A b \in applied :
           a.id = b.id /\ a.candleTime = b.candleTime => a.run = b.run
    /\ \A k \in 1..Len(active_setups) :
           active_setups[k].signalCandleTime >= 1 =>
               active_setups[k].candlesElapsed
                   <= Cardinality(CandlesAfter(active_setups[k]))

\* C27: STEP 2 refines monitorSetups: when an invocation has dealt with a
\* WAITING setup and the latest complete candle, the stored row has the
\* status and the candlesElapsed of the copy monitorSetups returns for that
\* setup and candle.
C27_RefinesMonitor ==
    [][\A i \in Invocations :
           cron[i].pc = "monitor" /\ cron'[i].pc # "monitor" =>
               LET setup == Head(cron[i].activeSetups)
                   copy == monitorOne(setup, cron[i].latestCandle).setup
               IN  \A k \in 1..Len(active_setups') :
                       active_setups'[k].id = setup.id =>
                           /\ active_setups'[k].status = copy.status
                           /\ active_setups'[k].candlesElapsed = copy.candlesElapsed]_vars

\* C28: a Signal is resolved only against candles after its entry candle:
\* the candle whose time is stored as the outcome time of a Signal is later
\* than the candle that triggered its setup.
C28_OutcomeAfterEntry ==
    \A k \in 1..Len(signals) :
        signals[k].outcome # "NULL" => signals[k].outcomeTime > signals[k].entryTime

-----------------------------------------------------------------------------
(* SpecFaults: GET /api/cron invocations follow one another while single   *)
(* persistence calls of STEP 2 fail.  updateSetup logs the error and       *)
(* returns false, saveSignal logs it and returns null; the route ignores   *)
(* both return values.                                                     *)

\* STEP 2, the setup against the fetched candle, with the update of the row
\* failing: the table is left as it was and the route goes on as if written
CronMonitorSetupFailed(i) ==
    /\ cron[i].pc = "monitor"
    /\ LET setup == Head(cron[i].activeSetups)
           latestCandle == cron[i].latestCandle
           triggered == IF setup.direction = "BUY"
                        THEN latestCandle.low <= setup.entryZone
                        ELSE latestCandle.high >= setup.entryZone
           newCount == setup.candlesElapsed + 1
       IN  cron' = [cron EXCEPT ![i] =
                       IF triggered THEN [@ EXCEPT !.pc = "signal"]
                       ELSE [@ EXCEPT !.pc = "step2",
                                      !.activeSetups = Tail(@),
                                      !.latestCandle = NoCandle,
                                      !.results.expiredSetups =
                                          IF newCount >= 10 THEN @ + 1 ELSE @]]
    /\ UNCHANGED <<active_setups, signals, market, runs, applied, posts, dbIds>>
    /\ CronUnchanged

\* STEP 2, after markSetupTriggered, with the insert of the Signal failing:
\* no row is stored and the entry is counted all the same
CronSaveSignalFailed(i) ==
    /\ cron[i].pc = "signal"
    /\ dbIds' = dbIds + 1
    /\ cron' = [cron EXCEPT ![i] =
                   [@ EXCEPT !.pc = "step2", !.activeSetups = Tail(@),
                             !.latestCandle = NoCandle,
                             !.results.triggeredEntries = @ + 1]]
    /\ UNCHANGED <<active_setups, signals, market, runs, applied, posts>>
    /\ CronUnchanged

NextFaults ==
    \/ \E shape \in MarketShapes : NewCandle(shape)
    \/ CronStep(1)
    \/ CronMonitorSetupFailed(1)
    \/ CronSaveSignalFailed(1)

SpecFaults == InitCron /\ [][NextFaults]_vars

\* no invocation is between two of its steps
Quiescent == \A i \in Invocations : cron[i].pc \in {"idle", "done"}

\* C29: whenever no invocation is under way, also after persistence calls
\* have failed, every stored Signal references a setup whose status is
\* TRIGGERED and every TRIGGERED setup has exactly one Signal.
C29_Consistent ==
    Quiescent =>
        /\ \A k \in 1..Len(signals) :
               \E j \in 1..Len(active_setups) :
                   /\ active_setups[j].id = signals[k].setupId
                   /\ active_setups[j].status = "TRIGGERED"
        /\ \A j \in 1..Len(active_setups) :
               active_setups[j].status = "TRIGGERED" =>
                   Len(SignalsOf(active_setups[j].id)) = 1

\* rows of the two tables by what the summary counts
ExpiredRows(rows) == Cardinality({k \in 1..Len(rows) : rows[k].status = "EXPIRED"})
OutcomeRows(rows, outcome) == Cardinality({k \in 1..Len(rows) : rows[k].outcome = outcome})

\* C40: the summary of one GET /api/cron invocation matches what the
\* invocation persisted, also when persistence calls fail: every step of the
\* invocation raises triggeredEntries by the number of Signal rows it
\* created, expiredSetups by the number of setups it moved to EXPIRED, and
\* wins / losses by the number of Signals it wrote as WIN / LOSS.
C40_SummaryMatchesPersisted ==
    [][cron[1].pc \notin {"idle", "done"} =>
           /\ cron'[1].results.triggeredEntries - cron[1].results.triggeredEntries
                  = Len(signals') - Len(signals)
           /\ cron'[1].results.expiredSetups - cron[1].results.expiredSetups
                  = ExpiredRows(active_setups') - ExpiredRows(active_setups)
           /\ cron'[1].results.wins - cron[1].results.wins
                  = OutcomeRows(signals', "WIN") - OutcomeRows(signals, "WIN")
           /\ cron'[1].results.losses - cron[1].results.losses
                  = OutcomeRows(signals', "LOSS") - OutcomeRows(signals, "LOSS")]_vars

-----------------------------------------------------------------------------
(* SpecDedupe: a caller of the SignalManager turns scan results into       *)
(* setups, adding one only when hasExistingSetup says there is none yet.   *)

createActiveSetup(scanResult, id) ==
    ActiveSetup(id, scanResult.pair, scanResult.timeframe, scanResult.setup.direction,
                scanResult.wicklessCandle, scanResult.setup.entryZone,
                scanResult.setup.stopLoss, scanResult.setup.takeProfit, 0, "WAITING")

hasExistingSetup(pair, signalCandleTime) ==
    \E s \in Range(activeSetups) :
        s.pair = pair /\ s.signalCandleTime = signalCandleTime

\* scan results with a signal: a BUY on GBP_USD and a SELL on USD_JPY
DedupeScanResults ==
    { DetailedScanResult("GBP_USD", "M15", AtTime(SignalCandleA, 100),
                         TradeSetup("BUY", 10999, 10948, 11050, 51,
                                    SwingPoint(0, 0, 10950, "LOW"))),
      DetailedScanResult("USD_JPY", "M15", AtTime(SignalCandleM, 100),
                         TradeSetup("SELL", 11008, 11050, 10966, 42,
                                    SwingPoint(0, 0, 11048, "HIGH"))) }

AddNewSetup(scanResult) ==
    /\ Len(added) < MaxAdd
    /\ ~hasExistingSetup(scanResult.pair, scanResult.wicklessCandle.time)
    /\ AddSetup(createActiveSetup(scanResult, 0))

NextDedupe ==
    \/ \E scanResult \in DedupeScanResults : AddNewSetup(scanResult)
    \/ \E pair \in ManagerPairs, timeframe \in ManagerTimeframes, candle \in ManagerCandles :
           ProcessNewCandle(pair, timeframe, candle)
    \/ \E pair \in ManagerPairs, candle \in ManagerCandles :
           CheckSignalOutcomes(pair, candle)

SpecDedupe == InitManager /\ [][NextDedupe]_vars

\* C11: hasExistingSetup is true for the pair and signal candle time of every
\* setup ever added, and no two setups were added for the same pair and
\* signal candle time.
C11_AddedOnce ==
    /\ \A i \in 1..Len(added) :
           hasExistingSetup(added[i].pair, added[i].signalCandleTime)
    /\ \A i \in 1..Len(added) : \A j \in 1..Len(added) :
           /\ added[i].pair = added[j].pair
           /\ added[i].signalCandleTime = added[j].signalCandleTime
           => i = j

-----------------------------------------------------------------------------
(* SpecIncomplete: the caller of SpecMonitor feeds the candle that is      *)
(* still forming (complete = false) to monitorSetups.                      *)

IncompleteShapes == {[shape EXCEPT !.complete = FALSE] : shape \in CandleShapes}

NextIncomplete == \E shape \in IncompleteShapes : Feed(shape)

SpecIncomplete == InitMonitor /\ [][NextIncomplete]_vars

\* C12: a candle with complete = false fed to monitorSetups triggers no setup,
\* expires no setup and leaves every candlesElapsed as it was.
C12_IncompleteIgnored ==
    (fed # <<>> /\ ~newCandle.complete) =>
        /\ monitorResult.triggered = <<>>
        /\ monitorResult.expired = <<>>
        /\ \A i \in 1..Len(given) :
               \A y \in Range(Returned(monitorResult)) :
                   y.id = given[i].id => y.candlesElapsed = given[i].candlesElapsed

-----------------------------------------------------------------------------
(* swingPoints.ts.  Candle arrays are 0-based in the source: candles[i] of *)
(* the source is candles[i + 1] here, and SwingPoint.index keeps the       *)
(* source's 0-based value.                                                 *)

SWING_LOOKBACK == 3

RECURSIVE swingFlags_ties(_, _, _, _, _, _)
swingFlags_ties(candles, i, lookback, j, isSwingHigh, isSwingLow) ==
    IF j > lookback \/ (~isSwingHigh /\ ~isSwingLow)
    THEN [isSwingHigh |-> isSwingHigh, isSwingLow |-> isSwingLow]
    ELSE LET current == candles[i + 1]
             leftCandle == candles[i - j + 1]
             rightCandle == candles[i + j + 1]
             high == IF leftCandle.high > current.high \/ rightCandle.high > current.high
                     THEN FALSE ELSE isSwingHigh
             low == IF leftCandle.low < current.low \/ rightCandle.low < current.low
                    THEN FALSE ELSE isSwingLow
         IN  swingFlags_ties(candles, i, lookback, j + 1, high, low)

\* the inner loop of findSwingPoints from j on: the flags after the loop
RECURSIVE swingFlags(_, _, _, _, _, _)
swingFlags(candles, i, lookback, j, isSwingHigh, isSwingLow) ==
    IF j > lookback \/ (~isSwingHigh /\ ~isSwingLow)
    THEN [isSwingHigh |-> isSwingHigh, isSwingLow |-> isSwingLow]
    ELSE LET current == candles[i + 1]
             leftCandle == candles[i - j + 1]
             rightCandle == candles[i + j + 1]
             high == IF leftCandle.high >= current.high \/ rightCandle.high >= current.high
                     THEN FALSE ELSE isSwingHigh
             low == IF leftCandle.low <= current.low \/ rightCandle.low <= current.low
                    THEN FALSE ELSE isSwingLow
         IN  swingFlags(candles, i, lookback, j + 1, high, low)

\* what the outer loop of findSwingPoints may push, in the order it would:
\* for i from lookback to Len(candles) - lookback - 1, the HIGH of candle i
\* and then its LOW
swingCandidates(candles, lookback) ==
    [k \in 1..(2 * (Len(candles) - 2 * lookback)) |->
        LET i == lookback + (k - 1) \div 2
            current == candles[i + 1]
        IN  IF k % 2 = 1 THEN SwingPoint(i, current.time, current.high, "HIGH")
            ELSE SwingPoint(i, current.time, current.low, "LOW")]

\* the outer loop of findSwingPoints: the swings pushed, those candidates
\* whose flag is still set after the inner loop
swingLoop(candles, lookback) ==
    SelectSeq(swingCandidates(candles, lookback),
              LAMBDA s : IF s.type = "HIGH"
                         THEN swingFlags(candles, s.index, lookback, 1, TRUE, TRUE).isSwingHigh
                         ELSE swingFlags(candles, s.index, lookback, 1, TRUE, TRUE).isSwingLow)

\* Array.prototype.sort((a, b) => a.index - b.index): a stable sort.  The
\* array is bound once as q, then the first of its smallest elements is
\* moved to the front and the rest sorted.
RECURSIVE sortByIndex(_)
sortByIndex(swings) ==
    CHOOSE sorted \in
        { IF q = <<>> THEN <<>>
          ELSE LET first == CHOOSE k \in 1..Len(q) :
                                \A m \in 1..Len(q) :
                                    \/ q[k].index < q[m].index
                                    \/ q[k].index = q[m].index /\ k <= m
               IN  <<q[first]>> \o
                   sortByIndex(SubSeq(q, 1, first - 1) \o SubSeq(q, first + 1, Len(q))) :
          q \in {swings} } : TRUE

findSwingPoints(candles, lookback) ==
    IF Len(candles) < lookback * 2 + 1 THEN <<>>
    ELSE sortByIndex(swingLoop(candles, lookback))

findSwingHighs(candles, lookback) ==
    SelectSeq(findSwingPoints(candles, lookback), LAMBDA s : s.type = "HIGH")

findSwingLows(candles, lookback) ==
    SelectSeq(findSwingPoints(candles, lookback), LAMBDA s : s.type = "LOW")

\* null is the empty sequence, a swing point the one-element sequence
getMostRecentSwingHigh(candles, lookback) ==
    LET highs == findSwingHighs(candles, lookback)
    IN  IF Len(highs) > 0 THEN <<highs[Len(highs)]>> ELSE <<>>

getMostRecentSwingLow_oldest(candles, lookback) ==
    LET lows == findSwingLows(candles, lookback)
    IN  IF Len(lows) > 0 THEN <<lows[1]>> ELSE <<>>

getMostRecentSwingLow(candles, lookback) ==
    LET lows == findSwingLows(candles, lookback)
    IN  IF Len(lows) > 0 THEN <<lows[Len(lows)]>> ELSE <<>>

getStructureForSL(candles, direction, lookback) ==
    IF direction = "BUY" THEN getMostRecentSwingLow(candles, lookback)
    ELSE getMostRecentSwingHigh(candles, lookback)

-----------------------------------------------------------------------------
(* config.ts (pair configuration) and structure.ts.  Risk in pips is kept  *)
(* in hundredths of a pip, so that pipMultiplier times a price difference  *)
(* in units of 0.0001 is an integer for every pair.                        *)

CalcPairs == {"EUR_USD", "USD_JPY"}

\* slBuffer in units of 0.0001: 0.0002, and 0.02 for USD_JPY
getSLBuffer(pair) == IF pair = "USD_JPY" THEN 200 ELSE 2

\* hundredths of a pip per 0.0001 of price: pipMultiplier 10000, and 100 for
\* USD_JPY
getPipMultiplier(pair) == IF pair = "USD_JPY" THEN 1 ELSE 100

\* a number of pips in hundredths of a pip
Pips(n) == n * 100

calculateTradeSetup_shortTarget(direction, entryZone, candles, pair) ==
    LET buffer == getSLBuffer(pair)
        structure == getStructureForSL(candles, direction, SWING_LOOKBACK)
    IN  IF structure = <<>> THEN <<>>
        ELSE LET structurePoint == structure[1]
                 stopLoss == IF direction = "BUY" THEN structurePoint.price - buffer
                             ELSE structurePoint.price + buffer
                 risk == IF direction = "BUY" THEN entryZone - stopLoss
                         ELSE stopLoss - entryZone
                 takeProfit == IF direction = "BUY" THEN entryZone + risk - buffer
                               ELSE entryZone - risk + buffer
             IN  <<TradeSetup(direction, entryZone, stopLoss, takeProfit,
                              risk * getPipMultiplier(pair), structurePoint)>>

\* null is the empty sequence, a setup the one-element sequence
calculateTradeSetup(direction, entryZone, candles, pair) ==
    LET buffer == getSLBuffer(pair)
        structure == getStructureForSL(candles, direction, SWING_LOOKBACK)
    IN  IF structure = <<>> THEN <<>>
        ELSE LET structurePoint == structure[1]
                 stopLoss == IF direction = "BUY" THEN structurePoint.price - buffer
                             ELSE structurePoint.price + buffer
                 risk == IF direction = "BUY" THEN entryZone - stopLoss
                         ELSE stopLoss - entryZone
                 takeProfit == IF direction = "BUY" THEN entryZone + risk
                               ELSE entryZone - risk
             IN  <<TradeSetup(direction, entryZone, stopLoss, takeProfit,
                              risk * getPipMultiplier(pair), structurePoint)>>

\* candles of three shapes, told apart by high and low
BarWide == Candle(0, 10960, 11020, 10950, 11010, TRUE)
BarMid == Candle(0, 10970, 11010, 10960, 11000, TRUE)
BarTop == Candle(0, 10980, 11015, 10970, 11005, TRUE)

\* the candle array with these shapes, oldest first, times 1, 2, ...
Series(shapes) == [i \in 1..Len(shapes) |-> AtTime(shapes[i], i)]

Thrice(shape) == <<shape, shape, shape>>

\* candle arrays: too short; flat; one candle that is both swing high and
\* swing low; a later swing high; a later swing low; a swing low only; a
\* swing high only
CalcCandles ==
    { <<>>,
      Series(Thrice(BarMid) \o Thrice(BarMid) \o Thrice(BarMid) \o <<BarMid, BarMid>>),
      Series(Thrice(BarMid) \o <<BarWide>> \o Thrice(BarMid) \o <<BarMid>> \o Thrice(BarMid)),
      Series(Thrice(BarMid) \o <<BarWide>> \o Thrice(BarMid) \o <<BarTop>> \o Thrice(BarMid)),
      Series(Thrice(BarTop) \o <<BarWide>> \o Thrice(BarTop) \o <<BarMid>> \o Thrice(BarTop)),
      Series(Thrice(BarTop) \o <<BarMid>> \o Thrice(BarTop) \o <<BarTop>> \o Thrice(BarTop)),
      Series(Thrice(BarMid) \o <<BarTop>> \o Thrice(BarMid) \o <<BarMid>> \o Thrice(BarMid)) }

CalcEntryZones == {10940, 10948, 10955, 10999, 11030}

InitCalc ==
    /\ args \in [direction : {"BUY", "SELL"}, entryZone : CalcEntryZones,
                 candles : CalcCandles, pair : CalcPairs]
    /\ value = <<>>
    /\ returned = FALSE
    /\ IdleMonitor /\ IdleOutcome /\ IdleManager /\ IdleCron

CallCalculateTradeSetup ==
    /\ ~returned
    /\ value' = calculateTradeSetup(args.direction, args.entryZone, args.candles, args.pair)
    /\ returned' = TRUE
    /\ UNCHANGED args
    /\ UNCHANGED <<monitorVars, outcomeVars, managerVars, cronVars>>

NextCalc == CallCalculateTradeSetup

SpecCalc == InitCalc /\ [][NextCalc]_vars

C14_Ordered ==
    (returned /\ value # <<>>) =>
        IF value[1].direction = "BUY"
        THEN value[1].stopLoss < value[1].entryZone
             /\ value[1].entryZone < value[1].takeProfit
        ELSE value[1].takeProfit < value[1].entryZone
             /\ value[1].entryZone < value[1].stopLoss

\* a BUY setup is returned whose swing low lies above the entry zone
C14_StopAboveEntry ==
    /\ returned
    /\ value # <<>>
    /\ value[1].direction = "BUY"
    /\ value[1].structurePoint.price > value[1].entryZone
    /\ value[1].stopLoss > value[1].entryZone
    /\ value[1].takeProfit < value[1].entryZone

\* the swing points of the type the direction needs, in array order
Anchors(candles, direction) ==
    SelectSeq(findSwingPoints(candles, SWING_LOOKBACK),
              LAMBDA s : s.type = (IF direction = "BUY" THEN "LOW" ELSE "HIGH"))

\* C15: calculateTradeSetup returns null when findSwingPoints has no swing
\* point of the needed type (LOW for BUY, HIGH for SELL); otherwise its
\* structurePoint is the one of that type with the highest index and its
\* stopLoss is that price minus the buffer for BUY, plus the buffer for SELL.
\* Anchor 1.0950, buffer 0.0002 and entry zone 1.0999 give stopLoss 1.0948,
\* risk 0.0051 (51 pips) and takeProfit 1.1050.
C15_Anchor ==
    returned =>
        LET anchors == Anchors(args.candles, args.direction)
        IN  /\ (anchors = <<>>) <=> (value = <<>>)
            /\ value # <<>> =>
                 /\ value[1].structurePoint \in Range(anchors)
                 /\ \A s \in Range(anchors) : s.index <= value[1].structurePoint.index
                 /\ value[1].stopLoss =
                        IF args.direction = "BUY"
                        THEN value[1].structurePoint.price - getSLBuffer(args.pair)
                        ELSE value[1].structurePoint.price + getSLBuffer(args.pair)
                 /\ (/\ args.direction = "BUY"
                     /\ args.pair = "EUR_USD"
                     /\ args.entryZone = 10999
                     /\ value[1].structurePoint.price = 10950)
                    => /\ value[1].stopLoss = 10948
                       /\ value[1].riskPips = Pips(51)
                       /\ value[1].takeProfit = 11050

\* a BUY is anchored on the later of two swing lows
C15_Witness ==
    /\ returned
    /\ value # <<>>
    /\ args.direction = "BUY"
    /\ Len(Anchors(args.candles, "BUY")) = 2
    /\ value[1].structurePoint.index = 7
    /\ value[1].structurePoint.price = 10960
    /\ value[1].stopLoss = 10958

\* no swing low: null for a BUY
C15_WitnessNull ==
    /\ returned
    /\ value = <<>>
    /\ args.direction = "BUY"
    /\ Len(args.candles) = 11
    /\ Anchors(args.candles, "SELL") # <<>>

-----------------------------------------------------------------------------
(* structure.ts: validateSetup.  A reason is the sequence of the pieces of *)
(* its template string.                                                     *)

\* Number.prototype.toFixed(1) of a number of pips: tenths of a pip, halves
\* away from zero
toFixed1(pips) ==
    IF pips >= 0 THEN (pips + 5) \div 10 ELSE 0 - ((5 - pips) \div 10)

validateSetup_inclusive(setup, pair, minPips, maxPips) ==
    IF setup.riskPips < minPips
    THEN [valid |-> FALSE,
          reason |-> <<"Risk too small: ", toFixed1(setup.riskPips), " pips (min: ", minPips, ")">>]
    ELSE IF setup.riskPips > maxPips
    THEN [valid |-> FALSE,
          reason |-> <<"Risk too large: ", toFixed1(setup.riskPips), " pips (max: ", maxPips, ")">>]
    ELSE IF setup.direction = "BUY" /\ setup.entryZone < setup.stopLoss
    THEN [valid |-> FALSE, reason |-> <<"Entry must be above Stop Loss for BUY">>]
    ELSE IF setup.direction = "BUY" /\ setup.entryZone > setup.takeProfit
    THEN [valid |-> FALSE, reason |-> <<"Entry must be below Take Profit for BUY">>]
    ELSE IF setup.direction # "BUY" /\ setup.entryZone > setup.stopLoss
    THEN [valid |-> FALSE, reason |-> <<"Entry must be below Stop Loss for SELL">>]
    ELSE IF setup.direction # "BUY" /\ setup.entryZone < setup.takeProfit
    THEN [valid |-> FALSE, reason |-> <<"Entry must be above Take Profit for SELL">>]
    ELSE [valid |-> TRUE, reason |-> <<"Setup is valid">>]

validateSetup(setup, pair, minPips, maxPips) ==
    IF setup.riskPips < minPips
    THEN [valid |-> FALSE,
          reason |-> <<"Risk too small: ", toFixed1(setup.riskPips), " pips (min: ", minPips, ")">>]
    ELSE IF setup.riskPips > maxPips
    THEN [valid |-> FALSE,
          reason |-> <<"Risk too large: ", toFixed1(setup.riskPips), " pips (max: ", maxPips, ")">>]
    ELSE IF setup.direction = "BUY" /\ setup.entryZone <= setup.stopLoss
    THEN [valid |-> FALSE, reason |-> <<"Entry must be above Stop Loss for BUY">>]
    ELSE IF setup.direction = "BUY" /\ setup.entryZone >= setup.takeProfit
    THEN [valid |-> FALSE, reason |-> <<"Entry must be below Take Profit for BUY">>]
    ELSE IF setup.direction # "BUY" /\ setup.entryZone >= setup.stopLoss
    THEN [valid |-> FALSE, reason |-> <<"Entry must be below Stop Loss for SELL">>]
    ELSE IF setup.direction # "BUY" /\ setup.entryZone <= setup.takeProfit
    THEN [valid |-> FALSE, reason |-> <<"Entry must be above Take Profit for SELL">>]
    ELSE [valid |-> TRUE, reason |-> <<"Setup is valid">>]

\* the defaults of minPips and maxPips, and a second band
ValidateMinPips == {Pips(5), Pips(10)}
ValidateMaxPips == {Pips(50), Pips(8)}

\* risks around both ends of the default band, and a negative one
ValidateRiskPips == {0 - Pips(8), Pips(5) - 1, Pips(5), Pips(9), Pips(50), Pips(50) + 1}

ValidatePrices == {10948, 10999, 11050}

ValidateSetups ==
    { TradeSetup(direction, 10999, stopLoss, takeProfit, riskPips,
                 SwingPoint(3, 4, 10950, IF direction = "BUY" THEN "LOW" ELSE "HIGH")) :
        direction \in {"BUY", "SELL"}, stopLoss \in ValidatePrices,
        takeProfit \in ValidatePrices, riskPips \in ValidateRiskPips }

InitValidate ==
    /\ args \in [setup : ValidateSetups, pair : CalcPairs,
                 minPips : ValidateMinPips, maxPips : ValidateMaxPips]
    /\ value = <<>>
    /\ returned = FALSE
    /\ IdleMonitor /\ IdleOutcome /\ IdleManager /\ IdleCron

CallValidateSetup ==
    /\ ~returned
    /\ value' = validateSetup(args.setup, args.pair, args.minPips, args.maxPips)
    /\ returned' = TRUE
    /\ UNCHANGED args
    /\ UNCHANGED <<monitorVars, outcomeVars, managerVars, cronVars>>

NextValidate == CallValidateSetup

SpecValidate == InitValidate /\ [][NextValidate]_vars

\* the entry zone lies strictly between stop and target, on the side the
\* direction asks for
StrictlyBetween(setup) ==
    IF setup.direction = "BUY"
    THEN setup.stopLoss < setup.entryZone /\ setup.entryZone < setup.takeProfit
    ELSE setup.takeProfit < setup.entryZone /\ setup.entryZone < setup.stopLoss

\* C16: validateSetup returns valid = TRUE exactly when
\* minPips <= riskPips <= maxPips and the entry zone lies strictly between
\* stop loss and take profit; every rejection is a returned value with
\* valid = FALSE and a non-empty reason.
C16_ValidIff ==
    returned =>
        /\ value.valid \in BOOLEAN
        /\ value.valid <=>
               /\ args.minPips <= args.setup.riskPips
               /\ args.setup.riskPips <= args.maxPips
               /\ StrictlyBetween(args.setup)
        /\ ~value.valid => Len(value.reason) > 0 /\ value.reason[1] # ""

\* a setup inside the band is rejected because its stop equals its entry
C16_Witness ==
    /\ returned
    /\ ~value.valid
    /\ args.minPips <= args.setup.riskPips
    /\ args.setup.riskPips <= args.maxPips
    /\ args.setup.stopLoss = args.setup.entryZone
    /\ value.reason = <<"Entry must be above Stop Loss for BUY">>

\* a setup at the lower end of the band is accepted
C16_WitnessValid ==
    /\ returned
    /\ value.valid
    /\ args.setup.riskPips = args.minPips
    /\ args.setup.direction = "SELL"

-----------------------------------------------------------------------------
(* detection/wickless.ts: detectWickless.  Candle prices are in units of   *)
(* 0.0001; the tolerance of a pair is smaller than that for some pairs, so *)
(* it is kept in units of 0.00001 and prices are converted for comparison. *)

Fine(price) == price * 10

getTolerance_tenfold(pair) == IF pair = "USD_JPY" THEN 2000 ELSE 20

\* tolerance in units of 0.00001: 0.00002, and 0.002 for USD_JPY
getTolerance(pair) == IF pair = "USD_JPY" THEN 200 ELSE 2

Abs(x) == IF x < 0 THEN 0 - x ELSE x

\* a null of WicklessResult is the empty sequence
WicklessResult(isValid, direction, entryZone, candle) ==
    [isValid |-> isValid, direction |-> direction, entryZone |-> entryZone, candle |-> candle]

NoWickless == WicklessResult(FALSE, <<>>, <<>>, <<>>)

detectWickless_strictWick(candle, pair, trend) ==
    LET tolerance == getTolerance(pair)
        bodySize == Abs(Fine(candle.close) - Fine(candle.open))
    IN  IF trend = "RANGING" THEN NoWickless
        ELSE IF bodySize < tolerance THEN NoWickless
        ELSE IF /\ trend = "UP"
                /\ candle.close > candle.open
                /\ Fine(candle.low) > Fine(candle.open) - tolerance
        THEN WicklessResult(TRUE, <<"BUY">>, <<candle.low>>, <<candle>>)
        ELSE IF /\ trend = "DOWN"
                /\ candle.close < candle.open
                /\ Fine(candle.high) < Fine(candle.open) + tolerance
        THEN WicklessResult(TRUE, <<"SELL">>, <<candle.high>>, <<candle>>)
        ELSE NoWickless

detectWickless_rangingAsUp(candle, pair, trend) ==
    LET tolerance == getTolerance(pair)
        bodySize == Abs(Fine(candle.close) - Fine(candle.open))
    IN  IF bodySize < tolerance THEN NoWickless
        ELSE IF /\ trend \in {"UP", "RANGING"}
                /\ candle.close > candle.open
                /\ Fine(candle.low) >= Fine(candle.open) - tolerance
        THEN WicklessResult(TRUE, <<"BUY">>, <<candle.low>>, <<candle>>)
        ELSE IF /\ trend = "DOWN"
                /\ candle.close < candle.open
                /\ Fine(candle.high) <= Fine(candle.open) + tolerance
        THEN WicklessResult(TRUE, <<"SELL">>, <<candle.high>>, <<candle>>)
        ELSE NoWickless

detectWickless(candle, pair, trend) ==
    LET tolerance == getTolerance(pair)
        bodySize == Abs(Fine(candle.close) - Fine(candle.open))
    IN  IF trend = "RANGING" THEN NoWickless
        ELSE IF bodySize < tolerance THEN NoWickless
        ELSE IF /\ trend = "UP"
                /\ candle.close > candle.open
                /\ Fine(candle.low) >= Fine(candle.open) - tolerance
        THEN WicklessResult(TRUE, <<"BUY">>, <<candle.low>>, <<candle>>)
        ELSE IF /\ trend = "DOWN"
                /\ candle.close < candle.open
                /\ Fine(candle.high) <= Fine(candle.open) + tolerance
        THEN WicklessResult(TRUE, <<"SELL">>, <<candle.high>>, <<candle>>)
        ELSE NoWickless

Trends == {"UP", "DOWN", "RANGING"}

Min(a, b) == IF a < b THEN a ELSE b
Max(a, b) == IF a > b THEN a ELSE b

\* closes below, at and above an open of 1.1000; wicks of 0, 1, 20 and 21
\* units, on either side of both tolerances
WickCloses == {10950, 10990, 11000, 11010, 11050}
WickSizes == {0, 1, 20, 21}

\* open 1.1000, high 1.1010, low 1.0999, close 1.1008
ScenarioCandle == Candle(1, 11000, 11010, 10999, 11008, TRUE)

WickCandles ==
    { Candle(1, 11000, Max(11000, close) + upperWick, Min(11000, close) - lowerWick, close, TRUE) :
        close \in WickCloses, upperWick \in WickSizes, lowerWick \in WickSizes }
    \cup {ScenarioCandle}

InitWickless ==
    /\ args \in [candle : WickCandles, pair : CalcPairs, trend : Trends]
    /\ value = <<>>
    /\ returned = FALSE
    /\ IdleMonitor /\ IdleOutcome /\ IdleManager /\ IdleCron

CallDetectWickless ==
    /\ ~returned
    /\ value' = detectWickless(args.candle, args.pair, args.trend)
    /\ returned' = TRUE
    /\ UNCHANGED args
    /\ UNCHANGED <<monitorVars, outcomeVars, managerVars, cronVars>>

NextWickless == CallDetectWickless

SpecWickless == InitWickless /\ [][NextWickless]_vars

\* the body is at least the tolerance, and the candle is bullish without a
\* bottom wick in an up trend or bearish without a top wick in a down trend
WicklessRule(candle, tolerance, trend) ==
    /\ Abs(Fine(candle.close) - Fine(candle.open)) >= tolerance
    /\ \/ /\ trend = "UP"
          /\ candle.close > candle.open
          /\ Fine(candle.low) >= Fine(candle.open) - tolerance
       \/ /\ trend = "DOWN"
          /\ candle.close < candle.open
          /\ Fine(candle.high) <= Fine(candle.open) + tolerance

\* C18: detectWickless returns isValid = TRUE exactly when
\* |close - open| >= tolerance and either the trend is UP, close > open and
\* low >= open - tolerance, or the trend is DOWN, close < open and
\* high <= open + tolerance; a valid result is a BUY with entryZone = low in
\* an up trend and a SELL with entryZone = high in a down trend.
C18_WicklessIff ==
    returned =>
        /\ value.isValid <=> WicklessRule(args.candle, getTolerance(args.pair), args.trend)
        /\ value.isValid =>
             /\ value.candle = <<args.candle>>
             /\ value.direction = IF args.trend = "UP" THEN <<"BUY">> ELSE <<"SELL">>
             /\ value.entryZone = IF args.trend = "UP" THEN <<args.candle.low>>
                                  ELSE <<args.candle.high>>

\* a bullish candle whose low is exactly the tolerance below its open
C18_Witness ==
    /\ returned
    /\ value.isValid
    /\ args.trend = "UP"
    /\ Fine(args.candle.low) = Fine(args.candle.open) - getTolerance(args.pair)
    /\ value.entryZone = <<args.candle.low>>

\* a bearish candle with a top wick just above the tolerance
C18_WitnessWick ==
    /\ returned
    /\ ~value.isValid
    /\ args.trend = "DOWN"
    /\ args.candle.close < args.candle.open
    /\ Fine(args.candle.high) = Fine(args.candle.open) + getTolerance(args.pair) + Fine(1)

\* the candle open 1.1000, high 1.1010, low 1.0999, close 1.1008 in an up
\* trend on EUR_USD
Scenario ==
    /\ returned
    /\ args.trend = "UP"
    /\ args.pair = "EUR_USD"
    /\ args.candle = ScenarioCandle

-----------------------------------------------------------------------------
(* detection/trend.ts, the swing relationships of swingPoints.ts, and the  *)
(* scans of signals/scanner.ts.  A null boolean is the empty sequence.     *)

MIN_SWING_POINTS == 4
CANDLES_TO_FETCH == 100

\* the four comparisons throw on a swing point of the wrong type:
\* swingTypeError is their guard, the comparison what they return otherwise
swingTypeError(current, previous, type) == current.type # type \/ previous.type # type

isHigherHigh(current, previous) == current.price > previous.price
isHigherLow(current, previous) == current.price > previous.price
isLowerHigh(current, previous) == current.price < previous.price
isLowerLow(current, previous) == current.price < previous.price

\* Array.prototype.slice(-2)
LastTwo(q) == IF Len(q) <= 2 THEN q ELSE SubSeq(q, Len(q) - 1, Len(q))

\* the last two swing points whatever their type
getSwingRelationships_untyped(candles, lookback) ==
    LET highs == LastTwo(findSwingPoints(candles, lookback))
        lows == LastTwo(findSwingPoints(candles, lookback))
    IN  [highs |-> highs,
         lows |-> lows,
         threw |-> \/ Len(highs) >= 2 /\ swingTypeError(highs[2], highs[1], "HIGH")
                   \/ Len(lows) >= 2 /\ swingTypeError(lows[2], lows[1], "LOW"),
         hasHigherHigh |-> IF Len(highs) >= 2 THEN <<isHigherHigh(highs[2], highs[1])>> ELSE <<>>,
         hasLowerHigh |-> IF Len(highs) >= 2 THEN <<isLowerHigh(highs[2], highs[1])>> ELSE <<>>,
         hasHigherLow |-> IF Len(lows) >= 2 THEN <<isHigherLow(lows[2], lows[1])>> ELSE <<>>,
         hasLowerLow |-> IF Len(lows) >= 2 THEN <<isLowerLow(lows[2], lows[1])>> ELSE <<>>]

\* threw: one of the comparisons called was given a swing point of the wrong
\* type and its Error left the function
getSwingRelationships(candles, lookback) ==
    LET highs == LastTwo(findSwingHighs(candles, lookback))
        lows == LastTwo(findSwingLows(candles, lookback))
    IN  [highs |-> highs,
         lows |-> lows,
         threw |-> \/ Len(highs) >= 2 /\ swingTypeError(highs[2], highs[1], "HIGH")
                   \/ Len(lows) >= 2 /\ swingTypeError(lows[2], lows[1], "LOW"),
         hasHigherHigh |-> IF Len(highs) >= 2 THEN <<isHigherHigh(highs[2], highs[1])>> ELSE <<>>,
         hasLowerHigh |-> IF Len(highs) >= 2 THEN <<isLowerHigh(highs[2], highs[1])>> ELSE <<>>,
         hasHigherLow |-> IF Len(lows) >= 2 THEN <<isHigherLow(lows[2], lows[1])>> ELSE <<>>,
         hasLowerLow |-> IF Len(lows) >= 2 THEN <<isLowerLow(lows[2], lows[1])>> ELSE <<>>]

\* counts candles beyond the first window instead of swing points
hasEnoughSwingPoints_byCandles(candles, lookback, minRequired) ==
    Len(candles) >= lookback * 2 + minRequired

hasEnoughSwingPoints(candles, lookback, minRequired) ==
    Len(findSwingPoints(candles, lookback)) >= minRequired

classifyTrend_either(candles, lookback) ==
    IF ~hasEnoughSwingPoints(candles, lookback, MIN_SWING_POINTS) THEN "RANGING"
    ELSE LET relationships == getSwingRelationships(candles, lookback)
         IN  IF relationships.threw THEN "Error"
             ELSE IF relationships.hasHigherHigh = <<TRUE>> \/ relationships.hasHigherLow = <<TRUE>>
             THEN "UP"
             ELSE IF relationships.hasLowerHigh = <<TRUE>> /\ relationships.hasLowerLow = <<TRUE>>
             THEN "DOWN"
             ELSE "RANGING"

\* the trend, or "Error" when getSwingRelationships threw
classifyTrend(candles, lookback) ==
    IF ~hasEnoughSwingPoints(candles, lookback, MIN_SWING_POINTS) THEN "RANGING"
    ELSE LET relationships == getSwingRelationships(candles, lookback)
         IN  IF relationships.threw THEN "Error"
             ELSE IF relationships.hasHigherHigh = <<TRUE>> /\ relationships.hasHigherLow = <<TRUE>>
             THEN "UP"
             ELSE IF relationships.hasLowerHigh = <<TRUE>> /\ relationships.hasLowerLow = <<TRUE>>
             THEN "DOWN"
             ELSE "RANGING"

\* of the TrendAnalysis only the trend is read by the scans
analyzeTrend(candles, lookback) == [trend |-> classifyTrend(candles, lookback)]

isTrendTradeable(candles, lookback) == classifyTrend(candles, lookback) # "RANGING"

getAllowedDirection(trend) ==
    IF trend = "UP" THEN <<"BUY">> ELSE IF trend = "DOWN" THEN <<"SELL">> ELSE <<>>

getCompleteCandles(candles) == SelectSeq(candles, LAMBDA c : c.complete)

hasEnoughCandles(candles, minRequired) == Len(getCompleteCandles(candles)) >= minRequired

\* the fields of DetailedScanResult the callers read; timestamp, scanDuration
\* and the swing lists of trendAnalysis are left out
ScanRecord(pair, timeframe, trend, wicklessResult, setup, setupValidation, candleCount) ==
    [pair |-> pair, timeframe |-> timeframe, trend |-> trend,
     wicklessDetected |-> wicklessResult.isValid,
     wicklessCandle |-> wicklessResult.candle,
     setup |-> setup, wicklessResult |-> wicklessResult,
     setupValidation |-> setupValidation, candleCount |-> candleCount]

\* scanner.ts lines 145-163 and 347-365: the setup and its validation for a
\* valid wickless result
scanSetup_recent(wicklessResult, trend, completeCandles, pair) ==
    LET direction == getAllowedDirection(trend)
        recent == SubSeq(completeCandles, Len(completeCandles) - 5, Len(completeCandles))
    IN  IF direction # <<>> /\ wicklessResult.entryZone # <<>>
        THEN calculateTradeSetup(direction[1], wicklessResult.entryZone[1], recent, pair)
        ELSE <<>>

scanSetup(wicklessResult, trend, completeCandles, pair) ==
    LET direction == getAllowedDirection(trend)
    IN  IF direction # <<>> /\ wicklessResult.entryZone # <<>>
        THEN calculateTradeSetup(direction[1], wicklessResult.entryZone[1], completeCandles, pair)
        ELSE <<>>

scanValidation(setup, pair) ==
    IF setup # <<>> THEN <<validateSetup(setup[1], pair, Pips(5), Pips(50))>> ELSE <<>>

\* the element of a one-element set: binds a value that is computed once
The(S) == CHOOSE x \in S : TRUE

\* scanner.ts lines 140-163 and 345-365: the result for the wickless result
\* of the last complete candle
scanWickless(completeCandles, pair, timeframe, trend, wicklessResult) ==
    IF ~wicklessResult.isValid
    THEN ScanRecord(pair, timeframe, trend, wicklessResult, <<>>, <<>>, Len(completeCandles))
    ELSE The({ ScanRecord(pair, timeframe, trend, wicklessResult, setup,
                          scanValidation(setup, pair), Len(completeCandles)) :
               setup \in {scanSetup(wicklessResult, trend, completeCandles, pair)} })

\* scanner.ts lines 129-163: scanPair from the trend on
scanTrend(completeCandles, pair, timeframe, trend) ==
    IF ~isTrendTradeable(completeCandles, SWING_LOOKBACK)
    THEN ScanRecord(pair, timeframe, trend, NoWickless, <<>>, <<>>, Len(completeCandles))
    ELSE The({ scanWickless(completeCandles, pair, timeframe, trend, wicklessResult) :
               wicklessResult \in
                   {detectWickless(completeCandles[Len(completeCandles)], pair, trend)} })

\* scanner.ts lines 116-163: scanPair from the complete candles on
scanComplete(candles, completeCandles, pair, timeframe) ==
    IF ~hasEnoughCandles(candles, CANDLES_TO_FETCH \div 2)
    THEN ScanRecord(pair, timeframe, "RANGING", NoWickless, <<>>, <<>>, Len(completeCandles))
    ELSE The({ scanTrend(completeCandles, pair, timeframe, trend) :
               trend \in {analyzeTrend(completeCandles, SWING_LOOKBACK).trend} })

\* scanPair from the candles its fetch returned
scanPairFetched(candles, pair, timeframe) ==
    The({ scanComplete(candles, completeCandles, pair, timeframe) :
          completeCandles \in {getCompleteCandles(candles)} })

\* scanner.ts lines 316-366: scanHistorical's result for a slice, from the
\* trend on
scanHistoricalTrend(completeCandles, pair, timeframe, trend) ==
    IF trend = "RANGING"
    THEN ScanRecord(pair, timeframe, trend, NoWickless, <<>>, <<>>, Len(completeCandles))
    ELSE The({ scanWickless(completeCandles, pair, timeframe, trend, wicklessResult) :
               wicklessResult \in
                   {detectWickless(completeCandles[Len(completeCandles)], pair, trend)} })

\* one position of scanHistorical's loop, given the complete candles of its
\* slice
scanHistoricalAt(completeCandles, pair, timeframe) ==
    The({ scanHistoricalTrend(completeCandles, pair, timeframe, trend) :
          trend \in {analyzeTrend(completeCandles, SWING_LOOKBACK).trend} })

\* the loop of scanHistorical from i on; i counts from 0
RECURSIVE scanHistoricalLoop(_, _, _, _)
scanHistoricalLoop(candles, pair, timeframe, i) ==
    IF i >= Len(candles) THEN <<>>
    ELSE The({ IF Len(completeCandles) < 20 THEN <<>>
               ELSE <<scanHistoricalAt(completeCandles, pair, timeframe)>> :
               completeCandles \in {getCompleteCandles(SubSeq(candles, 1, i + 1))} })
         \o scanHistoricalLoop(candles, pair, timeframe, i + 1)

scanHistorical(candles, pair, timeframe, startIndex) ==
    IF Len(candles) < startIndex THEN <<>>
    ELSE scanHistoricalLoop(candles, pair, timeframe, startIndex)

\* default of startIndex in scanHistorical
StartIndex == 50

\* longest candle array scanned
MaxScan == 58

\* a zigzag of period 8 around 1.1000 with a drift per candle: swing lows at
\* every 8th candle, swing highs four candles later; rising for a positive
\* drift, falling for a negative one, level for none
ZigOffsets == <<0, 10, 20, 30, 40, 30, 20, 10>>
ZigLevel(i, drift) == 11000 + ZigOffsets[((i - 1) % 8) + 1] + drift * (i - 1)

\* bullish without wicks, bearish without wicks, or with both wicks
ZigShapes == {"bull", "bear", "wick"}
ZigDrifts == {-2, 0, 2}

ZigCandle(i, drift, shape, complete) ==
    LET mid == ZigLevel(i, drift)
    IN  IF shape = "bull" THEN Candle(i, mid - 5, mid + 5, mid - 5, mid + 5, complete)
        ELSE IF shape = "bear" THEN Candle(i, mid + 5, mid + 5, mid - 5, mid - 5, complete)
        ELSE Candle(i, mid - 2, mid + 5, mid - 5, mid + 2, complete)

Zig(n, drift, shape) == [i \in 1..n |-> ZigCandle(i, drift, shape, TRUE)]

\* a market that rises candle by candle without a swing point
Ramp(n) == [i \in 1..n |-> Candle(i, 11000 + 10 * i, 11010 + 10 * i,
                                  11000 + 10 * i, 11010 + 10 * i, TRUE)]

\* arrays long enough for both scans, the same followed by the candle still
\* forming, arrays too short for either, and a market without swing points
ScanCandles ==
    LET full == { Zig(n, drift, shape) :
                    n \in (StartIndex + 1)..MaxScan, drift \in ZigDrifts, shape \in ZigShapes }
    IN  full
        \cup { Append(c, ZigCandle(Len(c) + 1, 2, "bull", FALSE)) : c \in full }
        \cup { Zig(30, drift, shape) : drift \in ZigDrifts, shape \in ZigShapes }
        \cup { Ramp(StartIndex + 1) }

InitScan ==
    /\ args \in [candles : ScanCandles, pair : CalcPairs, timeframe : {"M15"}]
    /\ value = <<>>
    /\ returned = FALSE
    /\ IdleMonitor /\ IdleOutcome /\ IdleManager /\ IdleCron

ScanUnchanged ==
    /\ UNCHANGED args
    /\ UNCHANGED <<monitorVars, outcomeVars, managerVars, cronVars>>

CallScanPair ==
    /\ ~returned
    /\ value' = [fn |-> "scanPair", trend |-> "",
                 results |-> <<scanPairFetched(args.candles, args.pair, args.timeframe)>>]
    /\ returned' = TRUE
    /\ ScanUnchanged

CallScanHistorical ==
    /\ ~returned
    /\ value' = [fn |-> "scanHistorical", trend |-> "",
                 results |-> scanHistorical(args.candles, args.pair, args.timeframe, StartIndex)]
    /\ returned' = TRUE
    /\ ScanUnchanged

\* detectWickless on the last candle of the array, with any trend
CallDetectWicklessLast ==
    /\ ~returned
    /\ \E trend \in Trends :
          value' = [fn |-> "detectWickless", trend |-> trend,
                    results |-> <<detectWickless(args.candles[Len(args.candles)], args.pair, trend)>>]
    /\ returned' = TRUE
    /\ ScanUnchanged

NextScan == CallScanPair \/ CallScanHistorical \/ CallDetectWicklessLast

SpecScan == InitScan /\ [][NextScan]_vars

\* C17: no signal in a ranging market: detectWickless with trend RANGING
\* returns isValid FALSE with direction, entryZone and candle null, and every
\* result of scanPair or scanHistorical whose trend is RANGING has
\* wicklessDetected FALSE, setup null and setupValidation null.
C17_NoSignalWhenRanging ==
    returned =>
        IF value.fn = "detectWickless"
        THEN value.trend = "RANGING" => value.results[1] = NoWickless
        ELSE \A r \in Range(value.results) :
                r.trend = "RANGING" =>
                    /\ ~r.wicklessDetected
                    /\ r.wicklessCandle = <<>>
                    /\ r.setup = <<>>
                    /\ r.setupValidation = <<>>

\* detectWickless was given a bullish candle without wicks and RANGING
C17_Witness ==
    /\ returned
    /\ value.fn = "detectWickless"
    /\ value.trend = "RANGING"
    /\ args.pair = "EUR_USD"
    /\ LET last == args.candles[Len(args.candles)]
       IN  last.close > last.open /\ last.low = last.open

\* scanHistorical returned RANGING results on candles without wicks
C17_WitnessScan ==
    /\ returned
    /\ value.fn = "scanHistorical"
    /\ Len(value.results) >= 2
    /\ \A r \in Range(value.results) : r.trend = "RANGING" /\ r.candleCount > 50
    /\ args.candles[1].low = args.candles[1].open

\* scanPair returned a RANGING result for enough candles whose last one has
\* no wicks
C17_WitnessPair ==
    /\ returned
    /\ value.fn = "scanPair"
    /\ value.results[1].trend = "RANGING"
    /\ value.results[1].candleCount > 50
    /\ args.candles[1].low = args.candles[1].open

-----------------------------------------------------------------------------
(* findSwingPoints on every array of up to MaxLen candles of three shapes, *)
(* with every lookback from 1 to MaxLookback.                               *)

MaxLen == 7
MaxLookback == 2

SwingShapes == {BarWide, BarMid, BarTop}

SwingSeries == UNION { { Series(shapes) : shapes \in [1..n -> SwingShapes] } : n \in 0..MaxLen }

InitSwings ==
    /\ args \in [candles : SwingSeries, lookback : 1..MaxLookback]
    /\ value = <<>>
    /\ returned = FALSE
    /\ IdleMonitor /\ IdleOutcome /\ IdleManager /\ IdleCron

CallFindSwingPoints ==
    /\ ~returned
    /\ value' = findSwingPoints(args.candles, args.lookback)
    /\ returned' = TRUE
    /\ UNCHANGED args
    /\ UNCHANGED <<monitorVars, outcomeVars, managerVars, cronVars>>

NextSwings == CallFindSwingPoints

SpecSwings == InitSwings /\ [][NextSwings]_vars

\* the reference: index i, counted from 0, with L candles on each side, is a
\* HIGH when its high is strictly above the highs of the L candles on each
\* side, and a LOW when its low is strictly below their lows
ReferenceSwings(candles, L) ==
    LET n == Len(candles)
        inner == { i \in 0..(n - 1) : L <= i /\ i < n - L }
    IN  { <<i, "HIGH">> : i \in { k \in inner :
              \A j \in 1..L : /\ candles[k - j + 1].high < candles[k + 1].high
                              /\ candles[k + j + 1].high < candles[k + 1].high } }
        \cup
        { <<i, "LOW">> : i \in { k \in inner :
              \A j \in 1..L : /\ candles[k - j + 1].low > candles[k + 1].low
                              /\ candles[k + j + 1].low > candles[k + 1].low } }

\* C20: findSwingPoints returns exactly the reference set, each member once:
\* sorted by index ascending, with the candle's high as the price of a HIGH
\* and its low as the price of a LOW, and nothing when there are fewer than
\* 2 * lookback + 1 candles.
C20_SwingReference ==
    returned =>
        LET n == Len(args.candles)
            L == args.lookback
        IN  /\ { <<value[p].index, value[p].type>> : p \in 1..Len(value) }
                   = ReferenceSwings(args.candles, L)
            /\ Len(value) = Cardinality(ReferenceSwings(args.candles, L))
            /\ \A p \in 1..Len(value) : \A q \in 1..Len(value) :
                   p < q => value[p].index <= value[q].index
            /\ \A p \in 1..Len(value) :
                   LET current == args.candles[value[p].index + 1]
                   IN  /\ value[p].time = current.time
                       /\ value[p].price = IF value[p].type = "HIGH" THEN current.high
                                           ELSE current.low
            /\ n < 2 * L + 1 => value = <<>>

\* a candle is both a HIGH and a LOW, a later one a HIGH only, and a tie
\* between neighbours qualifies neither
C20_Witness ==
    /\ returned
    /\ args.lookback = 1
    /\ Len(value) = 3
    /\ value[1].index = value[2].index
    /\ value[1].type = "HIGH" /\ value[2].type = "LOW"
    /\ value[3].index > value[2].index + 1
    /\ value[3].type = "HIGH"
    /\ Len(args.candles) > 2 * args.lookback + 1

\* neighbours that tie with the candle: no swing point although there are
\* enough candles
C20_WitnessTie ==
    /\ returned
    /\ value = <<>>
    /\ Len(args.candles) >= 2 * args.lookback + 1
    /\ \A p \in 1..Len(args.candles) : args.candles[p].high = BarWide.high

-----------------------------------------------------------------------------
(* classifyTrend on every array of up to MaxTrendLen candles of four       *)
(* shapes, with every lookback from 1 to MaxLookback.                       *)

MaxTrendLen == 5

\* higher than BarWide in both its high and its low
BarShift == Candle(0, 10965, 11030, 10955, 11020, TRUE)

\* inside BarWide on both sides, outside BarMid on both
BarInner == Candle(0, 10965, 11015, 10955, 11005, TRUE)

TrendShapes == {BarWide, BarMid, BarInner, BarShift}

TrendSeries == UNION { { Series(shapes) : shapes \in [1..n -> TrendShapes] } : n \in 0..MaxTrendLen }

InitTrend ==
    /\ args \in [candles : TrendSeries, lookback : 1..MaxLookback]
    /\ value = <<>>
    /\ returned = FALSE
    /\ IdleMonitor /\ IdleOutcome /\ IdleManager /\ IdleCron

CallClassifyTrend ==
    /\ ~returned
    /\ value' = classifyTrend(args.candles, args.lookback)
    /\ returned' = TRUE
    /\ UNCHANGED args
    /\ UNCHANGED <<monitorVars, outcomeVars, managerVars, cronVars>>

NextTrend == CallClassifyTrend

SpecTrend == InitTrend /\ [][NextTrend]_vars

\* the prices of the swing points of a type, oldest first
SwingPrices(candles, lookback, type) ==
    LET swings == SelectSeq(findSwingPoints(candles, lookback), LAMBDA s : s.type = type)
    IN  [p \in 1..Len(swings) |-> swings[p].price]

\* at least two prices and the latest above (rising) or below the previous
Rising(prices) == Len(prices) >= 2 /\ prices[Len(prices)] > prices[Len(prices) - 1]
Falling(prices) == Len(prices) >= 2 /\ prices[Len(prices)] < prices[Len(prices) - 1]

\* C21: classifyTrend returns RANGING when there are fewer than 4 swing
\* points; otherwise UP exactly when the latest swing high is above the
\* previous one and the latest swing low above the previous one, DOWN exactly
\* when both are below, and RANGING in every other case; UP and DOWN never
\* both apply.
C21_TrendRule ==
    returned =>
        LET highs == SwingPrices(args.candles, args.lookback, "HIGH")
            lows == SwingPrices(args.candles, args.lookback, "LOW")
            up == Rising(highs) /\ Rising(lows)
            down == Falling(highs) /\ Falling(lows)
        IN  /\ value \in {"UP", "DOWN", "RANGING"}
            /\ ~(up /\ down)
            /\ IF Len(highs) + Len(lows) < MIN_SWING_POINTS THEN value = "RANGING"
               ELSE /\ value = "UP" <=> up
                    /\ value = "DOWN" <=> down

C21_Witness == returned /\ value = "UP"

C21_WitnessDown == returned /\ value = "DOWN"

\* enough swing points, a higher high but a lower low
C21_WitnessMixed ==
    /\ returned
    /\ value = "RANGING"
    /\ Rising(SwingPrices(args.candles, args.lookback, "HIGH"))
    /\ Falling(SwingPrices(args.candles, args.lookback, "LOW"))
    /\ Len(findSwingPoints(args.candles, args.lookback)) >= MIN_SWING_POINTS

\* a rising pair of highs, but fewer than four swing points
C21_WitnessFew ==
    /\ returned
    /\ value = "RANGING"
    /\ Rising(SwingPrices(args.candles, args.lookback, "HIGH"))
    /\ Len(findSwingPoints(args.candles, args.lookback)) = 3

\* C24: classifyTrend never throws: the type errors of isHigherHigh,
\* isHigherLow, isLowerHigh and isLowerLow are not reached from it, for
\* candle arrays of any length including 0; with fewer than
\* 2 * lookback + 1 candles findSwingPoints returns nothing and
\* classifyTrend returns RANGING.
C24_NeverThrows ==
    returned =>
        /\ value # "Error"
        /\ Len(args.candles) < 2 * args.lookback + 1 =>
               /\ findSwingPoints(args.candles, args.lookback) = <<>>
               /\ value = "RANGING"

\* all four comparisons were called, on swing points of both types mixed in
\* the array
C24_Witness ==
    /\ returned
    /\ Len(SwingPrices(args.candles, args.lookback, "HIGH")) >= 2
    /\ Len(SwingPrices(args.candles, args.lookback, "LOW")) >= 2
    /\ LastTwo(findSwingPoints(args.candles, args.lookback))[1].type = "HIGH"
    /\ LastTwo(findSwingPoints(args.candles, args.lookback))[2].type = "LOW"
    /\ value = "DOWN"

\* no candle at all
C24_WitnessEmpty == returned /\ args.candles = <<>> /\ value = "RANGING"

-----------------------------------------------------------------------------
(* classifyTrend on two candle arrays: an array and the same candles with  *)
(* other times and bodies, or with one more candle before or after them.   *)

\* the same highs and lows, with open and close exchanged and other times
Redrawn(candles) ==
    [i \in 1..Len(candles) |->
        Candle(100 + 2 * i, candles[i].close, candles[i].high, candles[i].low,
               candles[i].open, TRUE)]

Variants(candles) ==
    { Redrawn(candles),
      Series(<<BarMid>>) \o candles,
      candles \o Series(<<BarMid>>) }

InitTrendPair ==
    /\ \E candles \in TrendSeries : \E other \in Variants(candles) :
          args \in [candles : {candles}, other : {other}, lookback : 1..MaxLookback]
    /\ value = <<>>
    /\ returned = FALSE
    /\ IdleMonitor /\ IdleOutcome /\ IdleManager /\ IdleCron

CallClassifyTrendPair ==
    /\ ~returned
    /\ value' = [trend |-> classifyTrend(args.candles, args.lookback),
                 other |-> classifyTrend(args.other, args.lookback)]
    /\ returned' = TRUE
    /\ UNCHANGED args
    /\ UNCHANGED <<monitorVars, outcomeVars, managerVars, cronVars>>

NextTrendPair == CallClassifyTrendPair

SpecTrendPair == InitTrendPair /\ [][NextTrendPair]_vars

\* the (type, price) entries of findSwingPoints, in its order
SwingProfile(candles, lookback) ==
    LET swings == findSwingPoints(candles, lookback)
    IN  [p \in 1..Len(swings) |-> <<swings[p].type, swings[p].price>>]

\* C22: two candle arrays whose findSwingPoints outputs have the same
\* sequence of (type, price) entries get the same trend from classifyTrend,
\* whatever their candle times, opens, closes and other candles.
C22_TrendOfSwingsOnly ==
    returned =>
        (SwingProfile(args.candles, args.lookback) = SwingProfile(args.other, args.lookback)
            => value.trend = value.other)

\* an up trend, and one more candle that adds no swing point
C22_Witness ==
    /\ returned
    /\ Len(args.other) = Len(args.candles) + 1
    /\ SwingProfile(args.candles, args.lookback) = SwingProfile(args.other, args.lookback)
    /\ value.trend = "UP"

\* the added candle makes a new swing point and the trend changes
C22_WitnessDiffer ==
    /\ returned
    /\ SwingProfile(args.candles, args.lookback) # SwingProfile(args.other, args.lookback)
    /\ value.trend # value.other

-----------------------------------------------------------------------------
(* scanner.ts: scanMultiplePairs over scanPair with its try / catch.  What *)
(* a fetch gives is a record: kind "error" when fetchCandles threw, kind   *)
(* "malformed" when it returned data the analysis throws on, and kind      *)
(* "candles" with the candle array otherwise.                               *)

MaxPairs == 2

Fetched(kind, candles) == [kind |-> kind, candles |-> candles]

\* scanPair: the result initialised before the try is returned as it is when
\* the fetch or getCompleteCandles throws
scanPairAttempt(fetched, pair, timeframe) ==
    IF fetched.kind # "candles"
    THEN ScanRecord(pair, timeframe, "RANGING", NoWickless, <<>>, <<>>, 0)
    ELSE scanPairFetched(fetched.candles, pair, timeframe)

\* Promise.all over pairs.map(scanPair): the results in the order of pairs
scanResults(pairs, fetched, timeframe) ==
    [k \in 1..Len(pairs) |-> scanPairAttempt(fetched[k], pairs[k], timeframe)]

isSignalFound_unvalidated(r) ==
    /\ r.wicklessDetected
    /\ r.setup # <<>>

isSignalFound(r) ==
    /\ r.wicklessDetected
    /\ r.setup # <<>>
    /\ r.setupValidation # <<>>
    /\ r.setupValidation[1].valid

\* stops at the first pair whose fetch failed
scanPairs_failFast(pairs, fetched, timeframe) ==
    LET failed == { k \in 1..Len(pairs) : fetched[k].kind # "candles" }
        kept == IF failed = {} THEN Len(pairs)
                ELSE (CHOOSE k \in failed : \A m \in failed : k <= m) - 1
    IN  The({ [results |-> results, signalsFound |-> SelectSeq(results, isSignalFound)] :
              results \in {scanResults(SubSeq(pairs, 1, kept), fetched, timeframe)} })

\* scanMultiplePairs, given what each pair's fetch gives
scanPairs(pairs, fetched, timeframe) ==
    The({ [results |-> results, signalsFound |-> SelectSeq(results, isSignalFound)] :
          results \in {scanResults(pairs, fetched, timeframe)} })

\* a fetch that throws, data that is no candle array, no candle, too few
\* candles, a level market, and a rising market ending in a candle without
\* a bottom wick
FetchOutcomes ==
    { Fetched("error", <<>>),
      Fetched("malformed", <<>>),
      Fetched("candles", <<>>),
      Fetched("candles", Zig(30, 2, "bull")),
      Fetched("candles", Zig(StartIndex + 1, 0, "bull")),
      Fetched("candles", Zig(StartIndex + 1, 2, "bull")) }

InitMulti ==
    /\ \E n \in 0..MaxPairs :
          args \in [pairs : [1..n -> CalcPairs], fetched : [1..n -> FetchOutcomes],
                    timeframe : {"M15"}]
    /\ value = <<>>
    /\ returned = FALSE
    /\ IdleMonitor /\ IdleOutcome /\ IdleManager /\ IdleCron

CallScanMultiplePairs ==
    /\ ~returned
    /\ value' = scanPairs(args.pairs, args.fetched, args.timeframe)
    /\ returned' = TRUE
    /\ UNCHANGED args
    /\ UNCHANGED <<monitorVars, outcomeVars, managerVars, cronVars>>

NextMulti == CallScanMultiplePairs

SpecMulti == InitMulti /\ [][NextMulti]_vars

\* C23: scanMultiplePairs returns one result per requested pair, in request
\* order; the result of a pair whose fetch or analysis failed is neutral
\* (trend RANGING, wicklessDetected FALSE, setup null), and the result of
\* every pair is what a scan of that pair alone gives.
C23_OneResultPerPair ==
    returned =>
        /\ Len(value.results) = Len(args.pairs)
        /\ \A k \in 1..Len(args.pairs) :
              /\ value.results[k].pair = args.pairs[k]
              /\ args.fetched[k].kind # "candles" =>
                     /\ value.results[k].trend = "RANGING"
                     /\ ~value.results[k].wicklessDetected
                     /\ value.results[k].setup = <<>>
              /\ value.results[k]
                     = scanPairs(<<args.pairs[k]>>, <<args.fetched[k]>>, args.timeframe).results[1]

\* the first pair's fetch fails and the second pair gives a signal
C23_Witness ==
    /\ returned
    /\ Len(args.pairs) = 2
    /\ args.fetched[1].kind = "error"
    /\ value.results[2].wicklessDetected
    /\ Len(value.signalsFound) = 1
    /\ value.signalsFound[1].pair = args.pairs[2]

\* C37: in the results of scanPair and scanHistorical a detected wickless
\* signal always comes with a setup: the trend UP or DOWN was read from at
\* least two swing highs and two swing lows of the candles the structure
\* anchor is then taken from.
C37_SignalHasSetup ==
    returned /\ value.fn \in {"scanPair", "scanHistorical"} =>
        \A k \in 1..Len(value.results) :
            value.results[k].wicklessDetected =>
                /\ value.results[k].trend \in {"UP", "DOWN"}
                /\ value.results[k].setup # <<>>
                /\ value.results[k].setupValidation # <<>>

\* scanHistorical finds a signal with its setup at several positions
C37_Witness ==
    /\ returned
    /\ value.fn = "scanHistorical"
    /\ Len(value.results) >= 3
    /\ \A k \in 1..Len(value.results) :
           value.results[k].wicklessDetected /\ value.results[k].setup # <<>>

\* no swing point, so no structure anchor: the trend is RANGING and the
\* wickless last candle is no signal
C37_WitnessNoStructure ==
    /\ returned
    /\ value.fn = "scanPair"
    /\ findSwingPoints(args.candles, SWING_LOOKBACK) = <<>>
    /\ args.candles[Len(args.candles)].low = args.candles[Len(args.candles)].open
    /\ ~value.results[1].wicklessDetected

\* scanPair finds a SELL signal with its setup
C37_WitnessPair ==
    /\ returned
    /\ value.fn = "scanPair"
    /\ value.results[1].wicklessDetected
    /\ value.results[1].setup # <<>>
    /\ value.results[1].setup[1].direction = "SELL"

-----------------------------------------------------------------------------
(* SpecAgree: validateWicklessCandle next to detectWickless, on complete   *)
(* candles and on candles still forming.                                   *)

WickChecks(candle, pair, trend) ==
    LET tolerance == getTolerance(pair)
        bodySize == Abs(Fine(candle.close) - Fine(candle.open))
        isBullish == candle.close > candle.open
    IN  [trendAligned |-> trend # "RANGING",
         correctDirection |-> \/ trend = "UP" /\ isBullish
                              \/ trend = "DOWN" /\ ~isBullish,
         wickRequirementMet |->
             \/ /\ trend = "UP" /\ isBullish
                /\ Fine(candle.low) >= Fine(candle.open) - tolerance
             \/ /\ trend = "DOWN" /\ ~isBullish
                /\ Fine(candle.high) <= Fine(candle.open) + tolerance,
         isComplete |-> candle.complete,
         notDoji |-> bodySize >= tolerance]

WickReason(checks, trend) ==
    IF ~checks.trendAligned THEN "Market is ranging - no trades"
    ELSE IF ~checks.isComplete THEN "Candle is not complete"
    ELSE IF ~checks.notDoji THEN "Candle body too small (doji)"
    ELSE IF ~checks.correctDirection
    THEN (IF trend = "UP" THEN "Need bullish candle for uptrend"
          ELSE "Need bearish candle for downtrend")
    ELSE IF ~checks.wickRequirementMet
    THEN (IF trend = "UP" THEN "Has bottom wick - not valid"
          ELSE "Has top wick - not valid")
    ELSE "Valid wickless signal candle"

validateWicklessCandle_dojiAllowed(candle, pair, trend) ==
    The({[isValid |-> /\ checks.trendAligned /\ checks.correctDirection
                      /\ checks.wickRequirementMet /\ checks.isComplete,
          checks |-> checks,
          reason |-> WickReason(checks, trend)] :
             checks \in {WickChecks(candle, pair, trend)}})

validateWicklessCandle(candle, pair, trend) ==
    The({[isValid |-> /\ checks.trendAligned /\ checks.correctDirection
                      /\ checks.wickRequirementMet /\ checks.isComplete
                      /\ checks.notDoji,
          checks |-> checks,
          reason |-> WickReason(checks, trend)] :
             checks \in {WickChecks(candle, pair, trend)}})

AgreeCandles ==
    WickCandles \cup {[candle EXCEPT !.complete = FALSE] : candle \in WickCandles}

InitAgree ==
    /\ args \in [candle : AgreeCandles, pair : CalcPairs, trend : Trends]
    /\ value = <<>>
    /\ returned = FALSE
    /\ IdleMonitor /\ IdleOutcome /\ IdleManager /\ IdleCron

CallValidateWicklessCandle ==
    /\ ~returned
    /\ value' = [validated |-> validateWicklessCandle(args.candle, args.pair, args.trend),
                 detected |-> detectWickless(args.candle, args.pair, args.trend)]
    /\ returned' = TRUE
    /\ UNCHANGED args
    /\ UNCHANGED <<monitorVars, outcomeVars, managerVars, cronVars>>

NextAgree == CallValidateWicklessCandle

SpecAgree == InitAgree /\ [][NextAgree]_vars

\* C38: validateWicklessCandle says isValid exactly when the candle is
\* complete and detectWickless says isValid for the same candle, pair and
\* trend.
C38_ValidateAgreesWithDetect ==
    returned =>
        (value.validated.isValid <=> (args.candle.complete /\ value.detected.isValid))

\* a complete candle both accept
C38_Witness ==
    /\ returned
    /\ args.candle.complete
    /\ value.validated.isValid
    /\ value.detected.isValid

\* a candle still forming that detectWickless alone accepts
C38_WitnessForming ==
    /\ returned
    /\ ~args.candle.complete
    /\ value.detected.isValid
    /\ ~value.validated.isValid
    /\ value.validated.reason = "Candle is not complete"

\* a candle with close = open and no top wick in a down trend: not bullish,
\* and rejected by both as a doji
C38_WitnessDoji ==
    /\ returned
    /\ args.trend = "DOWN"
    /\ args.candle.complete
    /\ args.candle.close = args.candle.open
    /\ args.candle.high = args.candle.open
    /\ value.validated.checks.correctDirection
    /\ value.validated.checks.wickRequirementMet
    /\ ~value.validated.isValid
    /\ ~value.detected.isValid

-----------------------------------------------------------------------------
(* SpecFound: scanMultiplePairs over markets that end in a signal candle:  *)
(* rising and falling ones whose structure gives a risk inside the band,   *)
(* at its upper edge and above it.                                         *)

\* rising with a risk of 42, of exactly 50 and of 52 pips for EUR_USD;
\* falling with 40 and with 52 pips; level
FoundOutcomes ==
    { Fetched("candles", Zig(StartIndex + 1, 2, "bull")),
      Fetched("candles", Zig(StartIndex + 3, 2, "bull")),
      Fetched("candles", Zig(StartIndex + 1, 3, "bull")),
      Fetched("candles", Zig(StartIndex + 1, -3, "bear")),
      Fetched("candles", Zig(StartIndex + 5, -3, "bear")),
      Fetched("candles", Zig(StartIndex + 1, 0, "bull")) }

InitFound ==
    /\ \E n \in 1..MaxPairs :
          args \in [pairs : [1..n -> CalcPairs], fetched : [1..n -> FoundOutcomes],
                    timeframe : {"M15"}]
    /\ value = <<>>
    /\ returned = FALSE
    /\ IdleMonitor /\ IdleOutcome /\ IdleManager /\ IdleCron

SpecFound == InitFound /\ [][NextMulti]_vars

\* C35: every element of signalsFound has trend UP or DOWN and a setup whose
\* direction is BUY exactly for UP, whose risk is between 5 and 50 pips
\* inclusive and whose entry lies strictly between stop and target.
C35_FoundAreValid ==
    returned =>
        \A k \in 1..Len(value.signalsFound) :
            LET r == value.signalsFound[k]
            IN  /\ r.trend \in {"UP", "DOWN"}
                /\ r.setup # <<>>
                /\ r.setup[1].direction = (IF r.trend = "UP" THEN "BUY" ELSE "SELL")
                /\ r.setup[1].riskPips >= Pips(5)
                /\ r.setup[1].riskPips <= Pips(50)
                /\ IF r.setup[1].direction = "BUY"
                   THEN /\ r.setup[1].stopLoss < r.setup[1].entryZone
                        /\ r.setup[1].entryZone < r.setup[1].takeProfit
                   ELSE /\ r.setup[1].takeProfit < r.setup[1].entryZone
                        /\ r.setup[1].entryZone < r.setup[1].stopLoss

\* a BUY at the upper edge of the band is found, a SELL above the band is not
C35_Witness ==
    /\ returned
    /\ Len(args.pairs) = 2
    /\ Len(value.signalsFound) = 1
    /\ value.signalsFound[1].setup[1].direction = "BUY"
    /\ value.signalsFound[1].setup[1].riskPips = Pips(50)
    /\ value.results[2].wicklessDetected
    /\ value.results[2].setup # <<>>
    /\ value.results[2].setup[1].direction = "SELL"
    /\ ~value.results[2].setupValidation[1].valid

\* a SELL inside the band is found
C35_WitnessSell ==
    /\ returned
    /\ Len(value.signalsFound) >= 1
    /\ value.signalsFound[1].trend = "DOWN"
    /\ value.signalsFound[1].setup[1].direction = "SELL"

-----------------------------------------------------------------------------
(* SpecCreate: createActiveSetup and createAndSaveSetup applied to the     *)
(* results scanPair returns.  A scan result is the record of scanner.ts:   *)
(* wicklessCandle and setup are null (the empty sequence) or a value.      *)

\* manager.ts createActiveSetup: null unless the result has a wickless
\* candle and a setup
createActiveSetupFromScan(scanResult, id) ==
    IF ~scanResult.wicklessDetected \/ scanResult.wicklessCandle = <<>>
                                   \/ scanResult.setup = <<>>
    THEN <<>>
    ELSE <<ActiveSetup(id, scanResult.pair, scanResult.timeframe,
                       scanResult.setup[1].direction, scanResult.wicklessCandle[1],
                       scanResult.setup[1].entryZone, scanResult.setup[1].stopLoss,
                       scanResult.setup[1].takeProfit, 0, "WAITING")>>

\* supabase.ts createAndSaveSetup: the setup returned (null or the row
\* stored) and the table afterwards
createAndSaveSetup(rows, scanResult, id) ==
    IF ~scanResult.wicklessDetected \/ scanResult.wicklessCandle = <<>>
                                   \/ scanResult.setup = <<>>
    THEN [setup |-> <<>>, rows |-> rows]
    ELSE IF setupExists(rows, scanResult.pair, scanResult.wicklessCandle[1].time)
    THEN [setup |-> <<>>, rows |-> rows]
    ELSE The({[setup |-> <<setup>>, rows |-> saveActiveSetup(rows, setup)] :
                 setup \in {ActiveSetup(id, scanResult.pair, scanResult.timeframe,
                                        scanResult.setup[1].direction,
                                        scanResult.wicklessCandle[1],
                                        scanResult.setup[1].entryZone,
                                        scanResult.setup[1].stopLoss,
                                        scanResult.setup[1].takeProfit, 0, "WAITING")}})

\* a rising market whose last candle opens on its low below the latest
\* swing low
DipCandles == Append(Zig(56, 2, "bull"), Candle(57, 11080, 11090, 11080, 11090, TRUE))

\* markets of every drift and candle shape, and the rising one with a dip
CreateCandles ==
    { Zig(n, drift, shape) : n \in (StartIndex + 1)..MaxScan,
                             drift \in {-3, -2, 0, 2, 3}, shape \in ZigShapes }
    \cup {DipCandles}

InitCreate ==
    /\ args \in [candles : CreateCandles, pair : CalcPairs, timeframe : {"M15"}]
    /\ value = <<>>
    /\ returned = FALSE
    /\ IdleMonitor /\ IdleOutcome /\ IdleManager /\ IdleCron

\* both functions on the result of a scan, the table being empty
CallCreateActiveSetup ==
    /\ ~returned
    /\ value' = The({[scanResult |-> scanResult,
                      created |-> createActiveSetupFromScan(scanResult, 1),
                      saved |-> createAndSaveSetup(<<>>, scanResult, 1)] :
                         scanResult \in {scanPairFetched(args.candles, args.pair,
                                                         args.timeframe)}})
    /\ returned' = TRUE
    /\ UNCHANGED args
    /\ UNCHANGED <<monitorVars, outcomeVars, managerVars, cronVars>>

NextCreate == CallCreateActiveSetup

SpecCreate == InitCreate /\ [][NextCreate]_vars

\* entry strictly between stop and target
EntryBetween(setup) ==
    IF setup.direction = "BUY"
    THEN setup.stopLoss < setup.entryZone /\ setup.entryZone < setup.takeProfit
    ELSE setup.takeProfit < setup.entryZone /\ setup.entryZone < setup.stopLoss

\* C36: createActiveSetup and createAndSaveSetup give an ActiveSetup only
\* for a scan result whose setupValidation is valid, and null for a result
\* with a wickless candle and a setup that failed validation; every
\* ActiveSetup created has its entry strictly between stop and target.
C36_CreatedOnlyIfValid ==
    returned =>
        \A made \in {value.created, value.saved.setup} :
            made # <<>> =>
                /\ value.scanResult.setupValidation # <<>>
                /\ value.scanResult.setupValidation[1].valid
                /\ EntryBetween(made[1])

-----------------------------------------------------------------------------
(* SpecSpread: adjustForSpread applied to setups that calculateTradeSetup  *)
(* could have returned (entry strictly between stop and target, target as  *)
(* far from the entry as the stop) and a spread in units of 0.0001.        *)

MaxSpread == 3

adjustForSpread(setup, spread) ==
    IF setup.direction = "BUY"
    THEN [setup EXCEPT !.entryZone = setup.entryZone + spread,
                       !.takeProfit = setup.takeProfit + spread]
    ELSE [setup EXCEPT !.entryZone = setup.entryZone - spread,
                       !.takeProfit = setup.takeProfit - spread]

SpreadEntryZones == {10950, 11000, 11050}
SpreadRisks == {1, 5, 20, 50, 51}

SpreadSetup(direction, entryZone, risk) ==
    IF direction = "BUY"
    THEN TradeSetup("BUY", entryZone, entryZone - risk, entryZone + risk,
                    risk * getPipMultiplier("EUR_USD"),
                    SwingPoint(3, 4, entryZone - risk + getSLBuffer("EUR_USD"), "LOW"))
    ELSE TradeSetup("SELL", entryZone, entryZone + risk, entryZone - risk,
                    risk * getPipMultiplier("EUR_USD"),
                    SwingPoint(3, 4, entryZone + risk - getSLBuffer("EUR_USD"), "HIGH"))

InitSpread ==
    /\ \E direction \in {"BUY", "SELL"}, entryZone \in SpreadEntryZones,
          risk \in SpreadRisks, spread \in 0..MaxSpread :
          args = [setup |-> SpreadSetup(direction, entryZone, risk), spread |-> spread]
    /\ value = <<>>
    /\ returned = FALSE
    /\ IdleMonitor /\ IdleOutcome /\ IdleManager /\ IdleCron

CallAdjustForSpread ==
    /\ ~returned
    /\ value' = adjustForSpread(args.setup, args.spread)
    /\ returned' = TRUE
    /\ UNCHANGED args
    /\ UNCHANGED <<monitorVars, outcomeVars, managerVars, cronVars>>

NextSpread == CallAdjustForSpread

SpecSpread == InitSpread /\ [][NextSpread]_vars

\* C39: the setup adjustForSpread returns for a spread >= 0 still has its
\* entry strictly between stop and target and its target as far from the
\* entry as its stop.
C39_SpreadKeepsInvariants ==
    returned =>
        /\ EntryBetween(value)
        /\ Abs(value.takeProfit - value.entryZone) = Abs(value.entryZone - value.stopLoss)

-----------------------------------------------------------------------------
(* SpecBatch: checkRetracement and simulateRetracement over the candles    *)
(* after a signal candle, next to monitorSetups fed the same candles one   *)
(* at a time.                                                              *)

MaxBatch == 11

RetracementCheck(triggered, entryPrice, triggerCandle, candlesElapsed) ==
    [triggered |-> triggered, entryPrice |-> entryPrice,
     triggerCandle |-> triggerCandle, candlesElapsed |-> candlesElapsed]

\* the result of the loop over the candles kept by the slice: the first
\* complete candle that reaches the entry zone, if any
retracementLoop(direction, entryZone, candlesToCheck) ==
    LET reached == {k \in 1..Len(candlesToCheck) :
                       /\ candlesToCheck[k].complete
                       /\ IF direction = "BUY"
                          THEN candlesToCheck[k].low <= entryZone
                          ELSE candlesToCheck[k].high >= entryZone}
    IN  IF reached # {}
        THEN The({RetracementCheck(TRUE, <<entryZone>>, <<candlesToCheck[k]>>, k) :
                      k \in {m \in reached : \A n \in reached : m <= n}})
        ELSE RetracementCheck(FALSE, <<>>, <<>>, Len(candlesToCheck))

checkRetracement_short(direction, entryZone, subsequentCandles) ==
    retracementLoop(direction, entryZone,
                    SubSeq(subsequentCandles, 1,
                           Min(Len(subsequentCandles), MAX_CANDLES_FOR_ENTRY - 1)))

checkRetracement(direction, entryZone, subsequentCandles) ==
    retracementLoop(direction, entryZone,
                    SubSeq(subsequentCandles, 1,
                           Min(Len(subsequentCandles), MAX_CANDLES_FOR_ENTRY)))

simulateRetracement(signalCandle, direction, entryZone, subsequentCandles) ==
    The({[entryTriggered |-> result.triggered,
          entryCandle |-> result.triggerCandle,
          candlesToEntry |-> result.candlesElapsed,
          expired |-> ~result.triggered
                      /\ result.candlesElapsed >= MAX_CANDLES_FOR_ENTRY] :
             result \in {checkRetracement(direction, entryZone, subsequentCandles)}})

\* monitorSetups fed the candles one at a time: each call gets the copy the
\* call before returned as still active; the run ends with the candles or
\* with the call that returns the setup as triggered or expired
RECURSIVE monitorRun(_, _)
monitorRun(setup, candles) ==
    IF candles = <<>> THEN [setup |-> setup, lastCandle |-> <<>>]
    ELSE The({IF result.stillActive # <<>>
              THEN monitorRun(result.stillActive[1], Tail(candles))
              ELSE [setup |-> (result.triggered \o result.expired)[1],
                    lastCandle |-> <<Head(candles)>>] :
                  result \in {monitorSetups(<<setup>>, Head(candles))}})

\* candles after the signal candle: one that stays off both entry zones and
\* one that touches each of them exactly
BatchShapes == {CandleIn, CandleUp}
BatchSignalCandle == AtTime(CandleUp, 0)
BatchEntryZone(direction) == IF direction = "BUY" THEN 11000 ELSE 11010

BatchSetup(direction) ==
    ActiveSetup(1, CronPair, "M15", direction, BatchSignalCandle,
                BatchEntryZone(direction),
                IF direction = "BUY" THEN 10949 ELSE 11061,
                IF direction = "BUY" THEN 11051 ELSE 10959, 0, "WAITING")

InitBatch ==
    /\ \E n \in 0..MaxBatch, direction \in {"BUY", "SELL"} :
          \E shapes \in [1..n -> BatchShapes] :
              args = [direction |-> direction,
                      entryZone |-> BatchEntryZone(direction),
                      candles |-> [k \in 1..n |-> AtTime(shapes[k], k)]]
    /\ value = <<>>
    /\ returned = FALSE
    /\ IdleMonitor /\ IdleOutcome /\ IdleManager /\ IdleCron

CallSimulateRetracement ==
    /\ ~returned
    /\ value' = [batch |-> checkRetracement(args.direction, args.entryZone,
                                            args.candles),
                 simulated |-> simulateRetracement(BatchSignalCandle, args.direction,
                                                   args.entryZone, args.candles),
                 monitored |-> monitorRun(BatchSetup(args.direction), args.candles)]
    /\ returned' = TRUE
    /\ UNCHANGED args
    /\ UNCHANGED <<monitorVars, outcomeVars, managerVars, cronVars>>

NextBatch == CallSimulateRetracement

SpecBatch == InitBatch /\ [][NextBatch]_vars

\* C30: over complete candles the batch check and the incremental monitor
\* agree: checkRetracement triggers exactly when the monitored setup ends
\* TRIGGERED, then on the same candle and with the same candlesElapsed;
\* simulateRetracement repeats the batch result and reports expired exactly
\* when the monitored setup ends EXPIRED.
C30_BatchAgreesWithMonitor ==
    returned =>
        /\ value.batch.triggered <=> value.monitored.setup.status = "TRIGGERED"
        /\ value.batch.triggered =>
               /\ value.batch.triggerCandle = value.monitored.lastCandle
               /\ value.batch.candlesElapsed = value.monitored.setup.candlesElapsed
               /\ value.batch.entryPrice = <<value.monitored.setup.entryZone>>
        /\ value.simulated.entryTriggered = value.batch.triggered
        /\ value.simulated.entryCandle = value.batch.triggerCandle
        /\ value.simulated.candlesToEntry = value.batch.candlesElapsed
        /\ value.simulated.expired <=> value.monitored.setup.status = "EXPIRED"

\* nine candles stay off the entry zone and the tenth touches it
C30_Witness ==
    /\ returned
    /\ Len(args.candles) = 11
    /\ value.batch.triggered
    /\ value.batch.candlesElapsed = 10
    /\ value.monitored.setup.status = "TRIGGERED"

\* ten candles stay off the entry zone and the eleventh touches it
C30_WitnessExpired ==
    /\ returned
    /\ Len(args.candles) = 11
    /\ isTriggered(BatchSetup(args.direction), args.candles[11])
    /\ value.simulated.expired
    /\ value.monitored.setup.status = "EXPIRED"
    /\ value.monitored.setup.candlesElapsed = 10

====
